---- MODULE Spec2Model ----
(***************************************************************************)
(* A model of the chesslib rules engine (escobar-west/chessapp):           *)
(* BitBoard geometry, the Board (mailbox + 12 piece bitboards + occupancy) *)
(* and the GameState move-application state machine.                       *)
(*                                                                         *)
(* A BitBoard (u64) is modelled as the set of the indices of its set bits, *)
(* a Square as its index 0..63 (8 * row + col).                            *)
(***************************************************************************)
EXTENDS Integers, Sequences, FiniteSets

\* ------------------------------------------------------------------ bounds
\* Number of calls (accepted or rejected) followed from a sparse initial
\* position, and from one of the crowded ones.
MaxPly == 2
MaxPlyCrowded == 1
\* Number of shifts applied in a row to a bitboard.
MaxShifts == 1
\* the number of calls made in a game played from the starting position
MaxGame == 5
\* the number of library calls the application makes
MaxApp == 2

\* ------------------------------------------------------------------ pieces
White == "White"
Black == "Black"
Color == {White, Black}

Pawn == "Pawn"
Rook == "Rook"
Knight == "Knight"
Bishop == "Bishop"
Queen == "Queen"
King == "King"
Figure == {Pawn, Rook, Knight, Bishop, Queen, King}

\* impl Not for Color
NotColor(c) == IF c = White THEN Black ELSE White

Piece(c, f) == [color |-> c, figure |-> f]
Pieces == {Piece(c, f) : c \in Color, f \in Figure}
\* Option<Piece>::None
NoPiece == [color |-> "None", figure |-> "None"]

WHITE_PAWN == Piece(White, Pawn)
WHITE_ROOK == Piece(White, Rook)
WHITE_KNIGHT == Piece(White, Knight)
WHITE_BISHOP == Piece(White, Bishop)
WHITE_QUEEN == Piece(White, Queen)
WHITE_KING == Piece(White, King)
BLACK_PAWN == Piece(Black, Pawn)
BLACK_ROOK == Piece(Black, Rook)
BLACK_KNIGHT == Piece(Black, Knight)
BLACK_BISHOP == Piece(Black, Bishop)
BLACK_QUEEN == Piece(Black, Queen)
BLACK_KING == Piece(Black, King)

\* ----------------------------------------------------------------- squares
Square == 0..63
\* Option<Square>::None
NoSquare == -1

\* Square::from_coords: 8 * row + col
from_coords(c, r) == 8 * r + c
\* Square::col: self & 7
col(s) == s % 8
\* Square::row: self >> 3
row(s) == s \div 8

\* Column discriminants
ColA == 0
ColC == 2
ColD == 3
ColE == 4
ColF == 5
ColG == 6
ColH == 7
\* Row discriminants
RowOne == 0
RowTwo == 1
RowThree == 2
RowFour == 3
RowFive == 4
RowSix == 5
RowSeven == 6
RowEight == 7

A1 == 0
H1 == 7
A8 == 56
H8 == 63

Abs(x) == IF x < 0 THEN -x ELSE x

\* ---------------------------------------------------------------- BitBoard
\* BitBoard::from_row: 0xff << (8 * r)
from_row(r) == {s \in Square : row(s) = r}
\* BitBoard::from_col: 0x0101010101010101 << c
from_col(c) == {s \in Square : col(s) = c}
\* BitBoard::from_square: 1 << s
from_square(s) == {s}

\* BitBoard::contains
contains(b, s) == s \in b
\* BitBoard::empty
empty(b) == b = {}
\* BitBoard::count_squares
count_squares(b) == Cardinality(b)

\* shift without the column mask: the word is shifted as it is
shift_unmasked(b, COLS, ROWS) ==
    IF Abs(ROWS) >= 8 \/ Abs(COLS) >= 8 THEN {}
    ELSE {s + (8 * ROWS + COLS) : s \in b} \cap Square

\* BitBoard::shift<COLS, ROWS>: mask the columns that would leave the board,
\* then shift the 64-bit word by 8 * ROWS + COLS (bits shifted out are lost).
shift(b, COLS, ROWS) ==
    IF Abs(ROWS) >= 8 \/ Abs(COLS) >= 8 THEN {}
    ELSE LET col_mask == IF COLS > 0
                         THEN {c \in 0..7 : c + COLS <= 7}
                         ELSE {c \in 0..7 : c >= -COLS}
             masked_bitboard == {s \in b : col(s) \in col_mask}
             sh == 8 * ROWS + COLS
         IN  {s + sh : s \in masked_bitboard} \cap Square

\* BitBoard::king_move_mask
king_move_mask(square) ==
    LET sq == from_square(square)
        lateral_mask == shift(sq, -1, 0) \cup shift(sq, 1, 0)
        screen_mask == lateral_mask \cup sq
    IN  lateral_mask \cup shift(screen_mask, 0, 1) \cup shift(screen_mask, 0, -1)

\* knight_move_mask built from shifts that do not mask the columns
knight_move_mask_unmasked(square) ==
    LET sq == from_square(square)
    IN  shift_unmasked(sq, -2, 1) \cup shift_unmasked(sq, -2, -1)
        \cup shift_unmasked(sq, -1, 2) \cup shift_unmasked(sq, -1, -2)
        \cup shift_unmasked(sq, 1, 2) \cup shift_unmasked(sq, 1, -2)
        \cup shift_unmasked(sq, 2, 1) \cup shift_unmasked(sq, 2, -1)

\* BitBoard::knight_move_mask
knight_move_mask(square) ==
    LET sq == from_square(square)
    IN  shift(sq, -2, 1) \cup shift(sq, -2, -1) \cup shift(sq, -1, 2)
        \cup shift(sq, -1, -2) \cup shift(sq, 1, 2) \cup shift(sq, 1, -2)
        \cup shift(sq, 2, 1) \cup shift(sq, 2, -1)

\* BitBoard::pawn_attack_mask
pawn_attack_mask(square, color) ==
    LET sq == from_square(square)
    IN  IF color = White
        THEN shift(sq, -1, 1) \cup shift(sq, 1, 1)
        ELSE shift(sq, -1, -1) \cup shift(sq, 1, -1)

\* The static tables built by gen_table!
KING_MOVES == [s \in Square |-> king_move_mask(s)]
KNIGHT_MOVES == [s \in Square |-> knight_move_mask(s)]
WHITE_PAWN_ATTACKS == [s \in Square |-> pawn_attack_mask(s, White)]
BLACK_PAWN_ATTACKS == [s \in Square |-> pawn_attack_mask(s, Black)]

\* BitBoard::king_moves / knight_moves / pawn_attacks
king_moves(square) == KING_MOVES[square]
knight_moves(square) == KNIGHT_MOVES[square]
pawn_attacks(square, color) ==
    IF color = White THEN WHITE_PAWN_ATTACKS[square] ELSE BLACK_PAWN_ATTACKS[square]

\* BitBoard::straight_ray(from, to): the squares from `from` (included) up to
\* `to` (excluded) along a shared rank or file; empty when they share none.
straight_ray(from, to) ==
    IF from = to THEN {}
    ELSE IF row(from) = row(to)
    THEN {s \in Square : /\ row(s) = row(from)
                         /\ \/ (col(from) <= col(s) /\ col(s) < col(to))
                            \/ (col(to) < col(s) /\ col(s) <= col(from))}
    ELSE IF col(from) = col(to)
    THEN {s \in Square : /\ col(s) = col(from)
                         /\ \/ (row(from) <= row(s) /\ row(s) < row(to))
                            \/ (row(to) < row(s) /\ row(s) <= row(from))}
    ELSE {}

\* BitBoard::diag_ray(from, to): the same along a shared diagonal.
diag_ray(from, to) ==
    IF from = to THEN {}
    ELSE IF Abs(col(from) - col(to)) = Abs(row(from) - row(to))
    THEN {s \in Square : /\ Abs(col(s) - col(from)) = Abs(row(s) - row(from))
                         /\ Abs(col(s) - col(to)) = Abs(row(s) - row(to))
                         /\ s # to
                         /\ \/ (col(from) <= col(s) /\ col(s) < col(to))
                            \/ (col(to) < col(s) /\ col(s) <= col(from))}
    ELSE {}

\* the highest set bit in the place of the lowest
bitscan_reverse(b) ==
    IF b = {} THEN NoSquare ELSE CHOOSE s \in b : \A t \in b : s >= t

\* BitBoard::bitscan_forward: the lowest set bit
bitscan_forward(b) ==
    IF b = {} THEN NoSquare ELSE CHOOSE s \in b : \A t \in b : s <= t

\* BitBoardIter::next: the lowest set bit of rem_board, which is flipped
\* (`^=`) in rem_board; None and nothing changed when there is none
iter_next(rem_board) ==
    LET lsb == bitscan_forward(rem_board)
    IN  IF lsb = NoSquare THEN [rem_board |-> rem_board, ret |-> NoSquare]
        ELSE [rem_board |-> (rem_board \ from_square(lsb))
                                \cup (from_square(lsb) \ rem_board),
              ret |-> lsb]

\* BitBoard::iter (BitBoardIter::next repeated): the set squares in
\* increasing index order
RECURSIVE bitboard_iter(_)
bitboard_iter(b) ==
    LET lsb == bitscan_forward(b)
    IN  IF lsb = NoSquare THEN <<>> ELSE <<lsb>> \o bitboard_iter(b \ {lsb})

\* ----------------------------------------------------------------- MailBox
\* MailBox::default: 64 empty entries
mailbox_default == [s \in Square |-> NoPiece]
\* MailBox::get_sq
mailbox_get_sq(m, square) == m[square]
\* MailBox::set_sq: store the piece, return the entry it replaces
mailbox_set_sq(m, square, piece) ==
    [mailbox |-> [m EXCEPT ![square] = piece], ret |-> m[square]]
\* MailBox::clear_sq: empty the entry, return what it held
mailbox_clear_sq(m, square) ==
    [mailbox |-> [m EXCEPT ![square] = NoPiece], ret |-> m[square]]

\* ------------------------------------------------------------------- Board
\* PieceSet::new
PieceSet_new(color) ==
    [color |-> color, pawns |-> {}, rooks |-> {}, knights |-> {},
     bishops |-> {}, queens |-> {}, kings |-> {}, occupied |-> {}]

\* Board::new
Board_new ==
    [white_pieces |-> PieceSet_new(White), black_pieces |-> PieceSet_new(Black),
     occupied |-> {}, mailbox |-> mailbox_default]

\* the PieceSet field a figure selects (the arms of get_piece_board)
figure_board(ps, figure) ==
    CASE figure = Pawn -> ps.pawns
      [] figure = Rook -> ps.rooks
      [] figure = Knight -> ps.knights
      [] figure = Bishop -> ps.bishops
      [] figure = Queen -> ps.queens
      [] figure = King -> ps.kings

\* Board::get_piece_board
get_piece_board(b, piece) ==
    IF piece.color = White THEN figure_board(b.white_pieces, piece.figure)
    ELSE figure_board(b.black_pieces, piece.figure)

\* Board::occupied_color
occupied_color(b, color) ==
    IF color = White THEN b.white_pieces.occupied ELSE b.black_pieces.occupied

\* `*get_piece_board_mut(piece) &= should_keep` and
\* `*occupied_color_mut(piece.color) &= should_keep` on one PieceSet
piece_set_clear(ps, figure, mask) ==
    CASE figure = Pawn -> [ps EXCEPT !.pawns = @ \ mask, !.occupied = @ \ mask]
      [] figure = Rook -> [ps EXCEPT !.rooks = @ \ mask, !.occupied = @ \ mask]
      [] figure = Knight -> [ps EXCEPT !.knights = @ \ mask, !.occupied = @ \ mask]
      [] figure = Bishop -> [ps EXCEPT !.bishops = @ \ mask, !.occupied = @ \ mask]
      [] figure = Queen -> [ps EXCEPT !.queens = @ \ mask, !.occupied = @ \ mask]
      [] figure = King -> [ps EXCEPT !.kings = @ \ mask, !.occupied = @ \ mask]

\* `*get_piece_board_mut(piece) |= mask` and
\* `*occupied_color_mut(piece.color) |= mask` on one PieceSet
piece_set_set(ps, figure, mask) ==
    CASE figure = Pawn -> [ps EXCEPT !.pawns = @ \cup mask, !.occupied = @ \cup mask]
      [] figure = Rook -> [ps EXCEPT !.rooks = @ \cup mask, !.occupied = @ \cup mask]
      [] figure = Knight -> [ps EXCEPT !.knights = @ \cup mask, !.occupied = @ \cup mask]
      [] figure = Bishop -> [ps EXCEPT !.bishops = @ \cup mask, !.occupied = @ \cup mask]
      [] figure = Queen -> [ps EXCEPT !.queens = @ \cup mask, !.occupied = @ \cup mask]
      [] figure = King -> [ps EXCEPT !.kings = @ \cup mask, !.occupied = @ \cup mask]

\* clear_piece_board without `self.occupied &= should_keep`
clear_piece_board_keeps_occupied(b, piece, mask) ==
    IF piece.color = White
    THEN [b EXCEPT !.white_pieces = piece_set_clear(@, piece.figure, mask)]
    ELSE [b EXCEPT !.black_pieces = piece_set_clear(@, piece.figure, mask)]

\* Board::clear_piece_board
clear_piece_board(b, piece, mask) ==
    IF piece.color = White
    THEN [b EXCEPT !.white_pieces = piece_set_clear(@, piece.figure, mask),
                   !.occupied = @ \ mask]
    ELSE [b EXCEPT !.black_pieces = piece_set_clear(@, piece.figure, mask),
                   !.occupied = @ \ mask]

\* Board::set_piece_board
set_piece_board(b, piece, mask) ==
    IF piece.color = White
    THEN [b EXCEPT !.white_pieces = piece_set_set(@, piece.figure, mask),
                   !.occupied = @ \cup mask]
    ELSE [b EXCEPT !.black_pieces = piece_set_set(@, piece.figure, mask),
                   !.occupied = @ \cup mask]

\* Board::get_sq
get_sq(b, square) == mailbox_get_sq(b.mailbox, square)

\* clear_sq that empties the mailbox entry and leaves the bitboards alone
clear_sq_mailbox_only(b, square) ==
    LET m == mailbox_clear_sq(b.mailbox, square)
    IN  [board |-> [b EXCEPT !.mailbox = m.mailbox], ret |-> m.ret]

\* Board::clear_sq
clear_sq(b, square) ==
    LET m == mailbox_clear_sq(b.mailbox, square)
        b1 == [b EXCEPT !.mailbox = m.mailbox]
    IN  IF m.ret = NoPiece THEN [board |-> b1, ret |-> NoPiece]
        ELSE [board |-> clear_piece_board(b1, m.ret, from_square(square)),
              ret |-> m.ret]

\* the `.inspect(|&p| self.clear_piece_board(p, square.into()))` of set_sq
inspect_clear(b1, old_piece, square) ==
    IF old_piece = NoPiece THEN b1
    ELSE clear_piece_board(b1, old_piece, from_square(square))

\* set_sq leaving the bit of the piece it replaces
set_sq_keeps_old_bit(b, square, piece) ==
    LET m == mailbox_set_sq(b.mailbox, square, piece)
    IN  [board |-> set_piece_board([b EXCEPT !.mailbox = m.mailbox],
                                   piece, from_square(square)),
         ret |-> m.ret]

\* Board::set_sq
set_sq(b, square, piece) ==
    LET m == mailbox_set_sq(b.mailbox, square, piece)
    IN  [board |-> set_piece_board(
                       inspect_clear([b EXCEPT !.mailbox = m.mailbox], m.ret, square),
                       piece, from_square(square)),
         ret |-> m.ret]

\* the `.and_then(|p| self.set_sq(to, p))` of move_piece, c being what
\* clear_sq(from) returned
and_then_set_sq(c, to) ==
    IF c.ret = NoPiece THEN [board |-> c.board, ret |-> NoPiece]
    ELSE set_sq(c.board, to, c.ret)

\* Board::move_piece
move_piece(b, from, to) == and_then_set_sq(clear_sq(b, from), to)

\* the `if let Some(captured) = captured { self.set_sq(to, captured); }` of
\* unmove_piece
restore_captured(b1, to, captured) ==
    IF captured # NoPiece THEN set_sq(b1, to, captured).board ELSE b1

\* unmove_piece not putting the captured piece back
unmove_piece_captured_lost(b, from, to, captured) ==
    move_piece(b, to, from).board

\* Board::unmove_piece
unmove_piece(b, from, to, captured) ==
    restore_captured(move_piece(b, to, from).board, to, captured)

\* Board::count_pieces
count_pieces(b, piece) == count_squares(get_piece_board(b, piece))

\* Board::iter_piece
iter_piece(b, piece) == bitboard_iter(get_piece_board(b, piece))

\* pawn_moves without the Row::Four / Row::Five mask on the second step
pawn_moves_double_from_any_row(b, from, turn) ==
    LET attacks == pawn_attacks(from, turn) \cap occupied_color(b, NotColor(turn))
        moves ==
            IF turn = White
            THEN LET m1 == shift(from_square(from), 0, 1) \ b.occupied
                 IN  m1 \cup (shift(m1, 0, 1) \ b.occupied)
            ELSE LET m1 == shift(from_square(from), 0, -1) \ b.occupied
                 IN  m1 \cup (shift(m1, 0, -1) \ b.occupied)
    IN  attacks \cup moves

\* Board::pawn_moves
pawn_moves(b, from, turn) ==
    LET attacks == pawn_attacks(from, turn) \cap occupied_color(b, NotColor(turn))
        moves ==
            IF turn = White
            THEN LET m1 == shift(from_square(from), 0, 1) \ b.occupied
                 IN  m1 \cup ((shift(m1, 0, 1) \cap from_row(RowFour)) \ b.occupied)
            ELSE LET m1 == shift(from_square(from), 0, -1) \ b.occupied
                 IN  m1 \cup ((shift(m1, 0, -1) \cap from_row(RowFive)) \ b.occupied)
    IN  attacks \cup moves

\* is_pseudo without the occupancy test along the ray
is_pseudo_over_pieces(b, FIGURE, from, to, turn) ==
    CASE FIGURE = Knight ->
            contains(knight_moves(from) \ occupied_color(b, turn), to)
      [] FIGURE = Rook ->
            straight_ray(from, to) # {} /\ ~contains(occupied_color(b, turn), to)
      [] FIGURE = Bishop ->
            diag_ray(from, to) # {} /\ ~contains(occupied_color(b, turn), to)
      [] FIGURE = Queen ->
            (straight_ray(from, to) \cup diag_ray(from, to)) # {}
                /\ ~contains(occupied_color(b, turn), to)

\* Board::is_pseudo<FIGURE>
is_pseudo(b, FIGURE, from, to, turn) ==
    CASE FIGURE = Knight ->
            contains(knight_moves(from) \ occupied_color(b, turn), to)
      [] FIGURE = Rook ->
            LET is_cleared == (straight_ray(from, to) \cap b.occupied) = from_square(from)
            IN  is_cleared /\ ~contains(occupied_color(b, turn), to)
      [] FIGURE = Bishop ->
            LET is_cleared == (diag_ray(from, to) \cap b.occupied) = from_square(from)
            IN  is_cleared /\ ~contains(occupied_color(b, turn), to)
      [] FIGURE = Queen ->
            LET is_cleared ==
                    ((straight_ray(from, to) \cup diag_ray(from, to)) \cap b.occupied)
                        = from_square(from)
            IN  is_cleared /\ ~contains(occupied_color(b, turn), to)

\* Board::is_square_attacked: enemy king, knights, pawns and rooks are
\* looked at (the loop at the end runs over the enemy rooks only).
is_square_attacked(b, square, turn) ==
    LET enemy == NotColor(turn)
        enemy_king_mask == king_moves(square)
        enemy_king_location == get_piece_board(b, Piece(enemy, King))
        enemy_knight_mask == knight_moves(square)
        enemy_knight_location == get_piece_board(b, Piece(enemy, Knight))
        enemy_pawn_mask == pawn_moves(b, square, turn)
        enemy_pawn_location == get_piece_board(b, Piece(enemy, Pawn))
    IN  IF ~empty(enemy_king_mask \cap enemy_king_location) THEN TRUE
        ELSE IF ~empty(enemy_knight_mask \cap enemy_knight_location) THEN TRUE
        ELSE IF ~empty(enemy_pawn_mask \cap enemy_pawn_location) THEN TRUE
        ELSE \E rook_sq \in get_piece_board(b, Piece(enemy, Rook)) :
                is_pseudo(b, Rook, rook_sq, square, enemy)

\* Board::is_in_check
is_in_check(b, turn) ==
    \E s \in get_piece_board(b, Piece(turn, King)) : is_square_attacked(b, s, turn)

\* ------------------------------------------------------------------ Castle
\* enum Castle, #[repr(u8)]: bit 0 = K, bit 1 = Q, bit 2 = k, bit 3 = q
Castle_Null == 0
Castle_K == 1
Castle_Q == 2
Castle_KQ == 3
Castle_k == 4
Castle_q == 8
Castle_kq == 12
Castle_Kkq == 13
Castle_Qkq == 14
Castle_KQk == 7
Castle_KQq == 11
Castle_KQkq == 15
Castle == 0..15

\* bit i of a u8 discriminant
Bit(x, i) == (x \div (2 ^ i)) % 2

\* impl BitAnd / BitAndAssign for Castle: self as u8 & rhs as u8
castle_bitand(a, b) ==
    Bit(a, 0) * Bit(b, 0) + 2 * Bit(a, 1) * Bit(b, 1)
    + 4 * Bit(a, 2) * Bit(b, 2) + 8 * Bit(a, 3) * Bit(b, 3)

\* impl BitOr / BitOrAssign for Castle: self as u8 | rhs as u8
castle_bitor(a, b) ==
    LET or(x, y) == IF x + y > 0 THEN 1 ELSE 0
    IN  or(Bit(a, 0), Bit(b, 0)) + 2 * or(Bit(a, 1), Bit(b, 1))
        + 4 * or(Bit(a, 2), Bit(b, 2)) + 8 * or(Bit(a, 3), Bit(b, 3))

\* can_king_castle satisfied by either right of the colour
can_king_castle_either(c, color) ==
    LET mask == IF color = White THEN Castle_KQ ELSE Castle_kq
    IN  castle_bitand(c, mask) # Castle_Null

\* Castle::can_king_castle
can_king_castle(c, color) ==
    LET mask == IF color = White THEN Castle_K ELSE Castle_k
    IN  castle_bitand(c, mask) = mask

\* Castle::can_queen_castle
can_queen_castle(c, color) ==
    LET mask == IF color = White THEN Castle_Q ELSE Castle_q
    IN  castle_bitand(c, mask) = mask

\* remove_castle that ORs the mask in
remove_castle_or(c, color) ==
    LET mask == IF color = White THEN Castle_kq ELSE Castle_KQ
    IN  castle_bitor(c, mask)

\* Castle::remove_castle
remove_castle(c, color) ==
    LET mask == IF color = White THEN Castle_kq ELSE Castle_KQ
    IN  castle_bitand(c, mask)

\* Castle::remove_king_castle
remove_king_castle(c, color) ==
    LET mask == IF color = White THEN Castle_Qkq ELSE Castle_KQq
    IN  castle_bitand(c, mask)

\* remove_queen_castle with the mask of remove_castle
remove_queen_castle_both(c, color) ==
    LET mask == IF color = White THEN Castle_kq ELSE Castle_KQ
    IN  castle_bitand(c, mask)

\* Castle::remove_queen_castle
remove_queen_castle(c, color) ==
    LET mask == IF color = White THEN Castle_Kkq ELSE Castle_KQk
    IN  castle_bitand(c, mask)

\* --------------------------------------------------------------- GameState
\* half_move and full_move are u16
U16Modulus == 65536
\* `+= 1` on a u16 (wrapping arithmetic of an optimised build)
add_one_u16(x) == (x + 1) % U16Modulus

\* MoveResult: Ok(captured) or Err(res), together with the GameState the call
\* leaves behind
Ok == "Ok"
EmptySquare == "EmptySquare"
WrongTurn == "WrongTurn"
IllegalMove == "IllegalMove"
KingInCheck == "KingInCheck"
Promoting == "Promoting"
MoveError == {EmptySquare, WrongTurn, IllegalMove, KingInCheck, Promoting}

MoveOk(gs, captured) == [gs |-> gs, res |-> Ok, captured |-> captured]
MoveErr(gs, e) == [gs |-> gs, res |-> e, captured |-> NoPiece]

\* end_move counting the full move after every move
end_move_counts_every_move(gs, to_square) ==
    LET opp_q_rook == IF gs.turn = White THEN A8 ELSE A1
        opp_k_rook == IF gs.turn = White THEN H8 ELSE H1
        castle1 == IF to_square = opp_k_rook
                   THEN remove_king_castle(gs.castle, NotColor(gs.turn))
                   ELSE IF to_square = opp_q_rook
                   THEN remove_queen_castle(gs.castle, NotColor(gs.turn))
                   ELSE gs.castle
    IN  [gs EXCEPT !.castle = castle1, !.full_move = add_one_u16(gs.full_move),
                   !.turn = NotColor(gs.turn)]

\* GameState::end_move
end_move(gs, to_square) ==
    LET opp_q_rook == IF gs.turn = White THEN A8 ELSE A1
        opp_k_rook == IF gs.turn = White THEN H8 ELSE H1
        castle1 == IF to_square = opp_k_rook
                   THEN remove_king_castle(gs.castle, NotColor(gs.turn))
                   ELSE IF to_square = opp_q_rook
                   THEN remove_queen_castle(gs.castle, NotColor(gs.turn))
                   ELSE gs.castle
        full1 == IF gs.turn = Black THEN add_one_u16(gs.full_move) ELSE gs.full_move
    IN  [gs EXCEPT !.castle = castle1, !.full_move = full1,
                   !.turn = NotColor(gs.turn)]

\* the check test of test_move_for_check, m being what move_piece returned
check_after_move(gs, from, to, m) ==
    IF is_in_check(m.board, gs.turn)
    THEN MoveErr([gs EXCEPT !.board = unmove_piece(m.board, from, to, m.ret)],
                 KingInCheck)
    ELSE MoveOk([gs EXCEPT !.board = m.board], m.ret)

\* GameState::test_move_for_check
test_move_for_check(gs, from, to) ==
    check_after_move(gs, from, to, move_piece(gs.board, from, to))

\* pawn_move_tail setting the target after every move from the starting rank
pawn_move_tail_any_push(gs, from, to, captured) ==
    LET start_row == IF gs.turn = White THEN RowTwo ELSE RowSeven
        ep_row == IF gs.turn = White THEN RowThree ELSE RowSix
    IN  MoveOk([gs EXCEPT !.ep_square = IF row(from) = start_row
                                        THEN from_coords(col(to), ep_row)
                                        ELSE NoSquare,
                          !.half_move = 0],
               captured)

\* the `// ep` and `// half move` tail of make_pawn_move
pawn_move_tail(gs, from, to, captured) ==
    LET start_row == IF gs.turn = White THEN RowTwo ELSE RowSeven
        ep_row == IF gs.turn = White THEN RowThree ELSE RowSix
        end_row == IF gs.turn = White THEN RowFour ELSE RowFive
    IN  MoveOk([gs EXCEPT !.ep_square = IF row(from) = start_row /\ row(to) = end_row
                                        THEN from_coords(col(to), ep_row)
                                        ELSE NoSquare,
                          !.half_move = 0],
               captured)

\* make_pawn_move after test_move_for_check returned t for a move of
\* pawn_moves: `?`, then the last-row test
reject_last_row(gs, from, to, t) ==
    IF t.res # Ok THEN t
    ELSE IF row(to) = (IF gs.turn = White THEN RowEight ELSE RowOne)
    THEN MoveErr([gs EXCEPT !.board = unmove_piece(t.gs.board, from, to, t.captured)],
                 Promoting)
    ELSE pawn_move_tail(t.gs, from, to, t.captured)

\* `capture_pawn.map(|p| self.board.set_sq(capture_sq, p))`
restore_capture_pawn(b2, capture_sq, capture_pawn) ==
    IF capture_pawn # NoPiece THEN set_sq(b2, capture_sq, capture_pawn).board ELSE b2

\* the check test of the en-passant arm, c being what clear_sq(capture_sq)
\* returned after the pawn was moved
ep_check(gs, from, to, capture_sq, c) ==
    IF is_in_check(c.board, gs.turn)
    THEN MoveErr([gs EXCEPT !.board =
                      restore_capture_pawn(move_piece(c.board, to, from).board,
                                           capture_sq, c.ret)],
                 KingInCheck)
    ELSE pawn_move_tail([gs EXCEPT !.board = c.board], from, to, c.ret)

\* make_ep_move leaving the passed pawn where it is
make_ep_move_pawn_stays(gs, from, to, capture_sq) ==
    ep_check(gs, from, to, capture_sq, move_piece(gs.board, from, to))

\* the en-passant arm of make_pawn_move (`// make ep move`)
make_ep_move(gs, from, to, capture_sq) ==
    ep_check(gs, from, to, capture_sq,
             clear_sq(move_piece(gs.board, from, to).board, capture_sq))

\* GameState::make_pawn_move
make_pawn_move(gs, from, to) ==
    IF contains(pawn_moves(gs.board, from, gs.turn), to)
    THEN reject_last_row(gs, from, to, test_move_for_check(gs, from, to))
    ELSE IF /\ gs.ep_square # NoSquare
            /\ to = gs.ep_square
            /\ contains(pawn_attacks(from, gs.turn), to)
    THEN make_ep_move(gs, from, to, from_coords(col(to), row(from)))
    ELSE MoveErr(gs, IllegalMove)

\* castle_wing moving the king alone
castle_wing_king_only(gs, from, to, rook_from, rook_to) ==
    IF \E square \in straight_ray(from, rook_from) :
            is_square_attacked(gs.board, square, gs.turn)
    THEN MoveErr(gs, KingInCheck)
    ELSE MoveOk([gs EXCEPT !.board = move_piece(gs.board, from, to).board], NoPiece)

\* the castling arm of make_king_move for one wing whose right is held:
\* every square of straight_ray(from, rook_from) is tested for attack, then
\* the king and whatever stands on rook_from are moved
castle_wing(gs, from, to, rook_from, rook_to) ==
    IF \E square \in straight_ray(from, rook_from) :
            is_square_attacked(gs.board, square, gs.turn)
    THEN MoveErr(gs, KingInCheck)
    ELSE MoveOk([gs EXCEPT !.board =
                     move_piece(move_piece(gs.board, from, to).board,
                                rook_from, rook_to).board],
                NoPiece)

\* `}?;` and the `// own castle`, `// ep`, `// half move` tail of
\* make_king_move
king_move_tail(r) ==
    IF r.res # Ok THEN r
    ELSE MoveOk([r.gs EXCEPT !.castle = remove_castle(r.gs.castle, r.gs.turn),
                             !.ep_square = NoSquare,
                             !.half_move = IF r.captured # NoPiece THEN 0
                                           ELSE add_one_u16(r.gs.half_move)],
                r.captured)

\* GameState::make_king_move
make_king_move(gs, from, to) ==
    LET castle_row == IF gs.turn = White THEN RowOne ELSE RowEight
    IN  king_move_tail(
            IF contains(king_moves(from) \ occupied_color(gs.board, gs.turn), to)
            THEN test_move_for_check(gs, from, to)
            ELSE IF col(to) = ColC /\ row(to) = castle_row
            THEN IF can_queen_castle(gs.castle, gs.turn)
                 THEN castle_wing(gs, from, to, from_coords(ColA, castle_row),
                                  from_coords(ColD, castle_row))
                 ELSE MoveErr(gs, IllegalMove)
            ELSE IF col(to) = ColG /\ row(to) = castle_row
            THEN IF can_king_castle(gs.castle, gs.turn)
                 THEN castle_wing(gs, from, to, from_coords(ColH, castle_row),
                                  from_coords(ColF, castle_row))
                 ELSE MoveErr(gs, IllegalMove)
            ELSE MoveErr(gs, IllegalMove))

\* own_rook_castle with the two wings exchanged
own_rook_castle_swapped(gs, FIGURE, from) ==
    LET q_rook_sq == IF gs.turn = White THEN A1 ELSE A8
        k_rook_sq == IF gs.turn = White THEN H1 ELSE H8
    IN  IF FIGURE # Rook THEN gs.castle
        ELSE IF from = k_rook_sq THEN remove_queen_castle(gs.castle, gs.turn)
        ELSE IF from = q_rook_sq THEN remove_king_castle(gs.castle, gs.turn)
        ELSE gs.castle

\* the `// own castle` step of make_generic_move
own_rook_castle(gs, FIGURE, from) ==
    LET q_rook_sq == IF gs.turn = White THEN A1 ELSE A8
        k_rook_sq == IF gs.turn = White THEN H1 ELSE H8
    IN  IF FIGURE # Rook THEN gs.castle
        ELSE IF from = k_rook_sq THEN remove_king_castle(gs.castle, gs.turn)
        ELSE IF from = q_rook_sq THEN remove_queen_castle(gs.castle, gs.turn)
        ELSE gs.castle

\* generic_move_tail resetting the clock after every move
generic_move_tail_clock_reset(r, FIGURE, from) ==
    IF r.res # Ok THEN r
    ELSE MoveOk([r.gs EXCEPT !.castle = own_rook_castle(r.gs, FIGURE, from),
                             !.ep_square = NoSquare,
                             !.half_move = 0],
                r.captured)

\* `}?;` and the `// own castle`, `// ep`, `// half move` tail of
\* make_generic_move
generic_move_tail(r, FIGURE, from) ==
    IF r.res # Ok THEN r
    ELSE MoveOk([r.gs EXCEPT !.castle = own_rook_castle(r.gs, FIGURE, from),
                             !.ep_square = NoSquare,
                             !.half_move = IF r.captured # NoPiece THEN 0
                                           ELSE add_one_u16(r.gs.half_move)],
                r.captured)

\* GameState::make_generic_move<FIGURE>
make_generic_move(gs, FIGURE, from, to) ==
    generic_move_tail(
        IF is_pseudo(gs.board, FIGURE, from, to, gs.turn)
        THEN test_move_for_check(gs, from, to)
        ELSE MoveErr(gs, IllegalMove),
        FIGURE, from)

\* the `?` on the figure's move and the `self.end_move(to); Ok(captured)` of
\* make_move
end_after(r, to) ==
    IF r.res # Ok THEN r ELSE MoveOk(end_move(r.gs, to), r.captured)

\* the `match figure` of make_move
move_by_figure(gs, figure, from, to) ==
    CASE figure = Pawn -> make_pawn_move(gs, from, to)
      [] figure = King -> make_king_move(gs, from, to)
      [] OTHER -> make_generic_move(gs, figure, from, to)

\* make_move without the test for an empty from-square
make_move_unchecked(gs, from, to) ==
    LET p == get_sq(gs.board, from)
    IN  IF p.color # gs.turn THEN MoveErr(gs, WrongTurn)
        ELSE end_after(move_by_figure(gs, p.figure, from, to), to)

\* GameState::make_move
make_move(gs, from, to) ==
    LET p == get_sq(gs.board, from)
    IN  IF p = NoPiece THEN MoveErr(gs, EmptySquare)
        ELSE IF p.color # gs.turn THEN MoveErr(gs, WrongTurn)
        ELSE end_after(move_by_figure(gs, p.figure, from, to), to)

\* promote leaving the pawn on `to`
promote_keeps_pawn(r, to, promotion_piece) ==
    IF r.res # Ok THEN r
    ELSE MoveOk(end_move([r.gs EXCEPT !.half_move = 0, !.ep_square = NoSquare],
                         to),
                r.captured)

\* make_promotion after `}?;`: the promotion piece is set on `to`
promote(r, to, promotion_piece) ==
    IF r.res # Ok THEN r
    ELSE MoveOk(end_move([r.gs EXCEPT
                              !.board = set_sq(r.gs.board, to, promotion_piece).board,
                              !.half_move = 0,
                              !.ep_square = NoSquare],
                         to),
                r.captured)

\* GameState::make_promotion
make_promotion(gs, from, to, promotion_piece) ==
    LET p == get_sq(gs.board, from)
    IN  IF p = NoPiece \/ p.figure # Pawn THEN MoveErr(gs, IllegalMove)
        ELSE IF p.color # gs.turn THEN MoveErr(gs, WrongTurn)
        ELSE promote(IF contains(pawn_moves(gs.board, from, gs.turn), to)
                     THEN test_move_for_check(gs, from, to)
                     ELSE MoveErr(gs, IllegalMove),
                     to, promotion_piece)

\* ------------------------------------------------------- position import
\* A position string is given field by field: the piece placement and the
\* en-passant field as sequences of characters, the turn and castle fields as
\* strings, the two counters as the numbers their digits denote.

\* Piece::try_from(char)
piece_try_from(c) ==
    CASE c = "P" -> WHITE_PAWN     [] c = "R" -> WHITE_ROOK
      [] c = "N" -> WHITE_KNIGHT   [] c = "B" -> WHITE_BISHOP
      [] c = "Q" -> WHITE_QUEEN    [] c = "K" -> WHITE_KING
      [] c = "p" -> BLACK_PAWN     [] c = "r" -> BLACK_ROOK
      [] c = "n" -> BLACK_KNIGHT   [] c = "b" -> BLACK_BISHOP
      [] c = "q" -> BLACK_QUEEN    [] c = "k" -> BLACK_KING
      [] OTHER -> NoPiece

\* char::is_ascii_digit / char::to_digit(10)
DigitChars == <<"0", "1", "2", "3", "4", "5", "6", "7", "8", "9">>
is_ascii_digit(c) == \E i \in 1..10 : DigitChars[i] = c
to_digit(c) == (CHOOSE i \in 1..10 : DigitChars[i] = c) - 1

ParseOk(v) == [ok |-> TRUE, val |-> v, err |-> "None"]
ParseErr(v, e) == [ok |-> FALSE, val |-> v, err |-> e]

\* fen.split('/'): the k-th of the rows the '/' characters cut out
fen_row_chars(placement, k) ==
    LET slashes == {i \in 1..Len(placement) : placement[i] = "/"}
        before(i) == Cardinality({j \in slashes : j < i})
        idx == {i \in 1..Len(placement) : placement[i] # "/" /\ before(i) = k - 1}
        first == IF idx = {} THEN 1 ELSE CHOOSE i \in idx : \A j \in idx : i <= j
    IN  [n \in 1..Cardinality(idx) |-> placement[first + n - 1]]

\* the inner loop of Board::try_from_fen: `for c in row.chars()`
RECURSIVE fen_row(_, _, _, _, _)
fen_row(chars, i, b, row_idx, col_idx) ==
    IF i > Len(chars) THEN ParseOk(b)
    ELSE LET c == chars[i]
         IN  IF is_ascii_digit(c)
             THEN fen_row(chars, i + 1, b, row_idx, col_idx + to_digit(c))
             ELSE IF piece_try_from(c) = NoPiece THEN ParseErr(b, "ParsePieceError")
             ELSE IF col_idx > 7 THEN ParseErr(b, "InvalidValueError")
             ELSE fen_row(chars, i + 1,
                          set_sq(b, from_coords(col_idx, row_idx), piece_try_from(c)).board,
                          row_idx, col_idx + 1)

\* the outer loop: `for (row_idx, row) in (0..8).rev().zip(row_data)`
RECURSIVE fen_rows(_, _, _)
fen_rows(placement, k, r) ==
    IF k > 8 \/ ~r.ok THEN r
    ELSE fen_rows(placement, k + 1,
                  fen_row(fen_row_chars(placement, k), 1, r.val, 8 - k, 0))

\* Board::try_from_fen
Board_try_from_fen(placement) ==
    LET row_count == Cardinality({i \in 1..Len(placement) : placement[i] = "/"}) + 1
    IN  IF row_count # 8 THEN ParseErr(Board_new, "WrongRowCount")
        ELSE fen_rows(placement, 1, ParseOk(Board_new))

\* impl FromStr for Castle
castle_from_str(s) ==
    CASE s = "-" -> Castle_Null   [] s = "K" -> Castle_K
      [] s = "Q" -> Castle_Q      [] s = "KQ" -> Castle_KQ
      [] s = "k" -> Castle_k      [] s = "Kk" -> 5
      [] s = "Qk" -> 6            [] s = "KQk" -> Castle_KQk
      [] s = "q" -> Castle_q      [] s = "Kq" -> 9
      [] s = "Qq" -> 10           [] s = "KQq" -> Castle_KQq
      [] s = "kq" -> Castle_kq    [] s = "Kkq" -> Castle_Kkq
      [] s = "Qkq" -> Castle_Qkq  [] s = "KQkq" -> Castle_KQkq
      [] OTHER -> -1

\* impl TryFrom<char> for Column / Row
ColumnChars == <<"a", "b", "c", "d", "e", "f", "g", "h">>
RowChars == <<"1", "2", "3", "4", "5", "6", "7", "8">>
column_try_from(c) ==
    IF \E i \in 1..8 : ColumnChars[i] = c
    THEN (CHOOSE i \in 1..8 : ColumnChars[i] = c) - 1 ELSE -1
row_try_from(c) ==
    IF \E i \in 1..8 : RowChars[i] = c
    THEN (CHOOSE i \in 1..8 : RowChars[i] = c) - 1 ELSE -1

\* impl FromStr for Square
square_from_str(s) ==
    IF Len(s) # 2 THEN NoSquare
    ELSE IF column_try_from(s[1]) < 0 \/ row_try_from(s[2]) < 0 THEN NoSquare
    ELSE from_coords(column_try_from(s[1]), row_try_from(s[2]))

\* game_state_from counting the white king only
game_state_from_black_kings_uncounted(fen, b) ==
    LET no_gs == [board |-> Board_new, turn |-> White, castle |-> Castle_Null,
                  ep_square |-> NoSquare, half_move |-> 0, full_move |-> 0]
        c == castle_from_str(fen.castle)
        ep == IF fen.ep = <<"-">> THEN NoSquare ELSE square_from_str(fen.ep)
    IN  IF ~b.ok THEN ParseErr(no_gs, b.err)
        ELSE IF fen.turn \notin {"w", "b"} THEN ParseErr(no_gs, "InvalidColor")
        ELSE IF c < 0 THEN ParseErr(no_gs, "InvalidString")
        ELSE IF fen.ep # <<"-">> /\ ep = NoSquare THEN ParseErr(no_gs, "InvalidString")
        ELSE IF fen.half_move >= U16Modulus \/ fen.full_move >= U16Modulus
        THEN ParseErr(no_gs, "ParseIntError")
        ELSE IF count_pieces(b.val, WHITE_KING) # 1
        THEN ParseErr(no_gs, "IllegalState")
        ELSE ParseOk([board |-> b.val,
                      turn |-> IF fen.turn = "w" THEN White ELSE Black,
                      castle |-> c, ep_square |-> ep,
                      half_move |-> fen.half_move, full_move |-> fen.full_move])

\* GameState::try_from_fen once the board is parsed (b)
game_state_from(fen, b) ==
    LET no_gs == [board |-> Board_new, turn |-> White, castle |-> Castle_Null,
                  ep_square |-> NoSquare, half_move |-> 0, full_move |-> 0]
        c == castle_from_str(fen.castle)
        ep == IF fen.ep = <<"-">> THEN NoSquare ELSE square_from_str(fen.ep)
    IN  IF ~b.ok THEN ParseErr(no_gs, b.err)
        ELSE IF fen.turn \notin {"w", "b"} THEN ParseErr(no_gs, "InvalidColor")
        ELSE IF c < 0 THEN ParseErr(no_gs, "InvalidString")
        ELSE IF fen.ep # <<"-">> /\ ep = NoSquare THEN ParseErr(no_gs, "InvalidString")
        ELSE IF fen.half_move >= U16Modulus \/ fen.full_move >= U16Modulus
        THEN ParseErr(no_gs, "ParseIntError")
        ELSE IF count_pieces(b.val, WHITE_KING) # 1 \/ count_pieces(b.val, BLACK_KING) # 1
        THEN ParseErr(no_gs, "IllegalState")
        ELSE ParseOk([board |-> b.val,
                      turn |-> IF fen.turn = "w" THEN White ELSE Black,
                      castle |-> c, ep_square |-> ep,
                      half_move |-> fen.half_move, full_move |-> fen.full_move])

\* GameState::try_from_fen
try_from_fen(fen) == game_state_from(fen, Board_try_from_fen(fen.placement))

\* constants::DEFAULT_FEN: "rnbqkbnr/pppppppp/8/8/8/8/PPPPPPPP/RNBQKBNR w KQkq - 0 1"
DEFAULT_FEN ==
    [placement |-> <<"r", "n", "b", "q", "k", "b", "n", "r", "/", "p", "p", "p", "p", "p", "p", "p", "p", "/", "8", "/", "8", "/", "8", "/", "8", "/", "P", "P", "P", "P", "P", "P", "P", "P", "/", "R", "N", "B", "Q", "K", "B", "N", "R">>,
     turn |-> "w", castle |-> "KQkq", ep |-> <<"-">>,
     half_move |-> 0, full_move |-> 1]
\* constants::KNPR, the position the application starts from: "rn1nk2r/2P5/8/3pP3/6p1/8/4p1P1/R3K2R w KQq d6 0 1"
KNPR ==
    [placement |-> <<"r", "n", "1", "n", "k", "2", "r", "/", "2", "P", "5", "/", "8", "/", "3", "p", "P", "3", "/", "6", "p", "1", "/", "8", "/", "4", "p", "1", "P", "1", "/", "R", "3", "K", "2", "R">>,
     turn |-> "w", castle |-> "KQq", ep |-> <<"d", "6">>,
     half_move |-> 0, full_move |-> 1]
\* constants::EPCHECK: "4k3/8/8/r2pP2K/8/8/8/8 w - d6 0 1"
EPCHECK ==
    [placement |-> <<"4", "k", "3", "/", "8", "/", "8", "/", "r", "2", "p", "P", "2", "K", "/", "8", "/", "8", "/", "8", "/", "8">>,
     turn |-> "w", castle |-> "-", ep |-> <<"d", "6">>,
     half_move |-> 0, full_move |-> 1]
\* constants::CASTLECHECK: "r3k2r/1p6/2B5/8/8/5q2/6P1/R3K2R w KQkq - 0 1"
CASTLECHECK ==
    [placement |-> <<"r", "3", "k", "2", "r", "/", "1", "p", "6", "/", "2", "B", "5", "/", "8", "/", "8", "/", "5", "q", "2", "/", "6", "P", "1", "/", "R", "3", "K", "2", "R">>,
     turn |-> "w", castle |-> "KQkq", ep |-> <<"-">>,
     half_move |-> 0, full_move |-> 1]
\* EPCHECK with a white knight standing on the en-passant target: "4k3/8/3N4/r2pP2K/8/8/8/8 w - d6 0 1"
EP_TARGET_TAKEN ==
    [placement |-> <<"4", "k", "3", "/", "8", "/", "3", "N", "4", "/", "r", "2", "p", "P", "2", "K", "/", "8", "/", "8", "/", "8", "/", "8">>,
     turn |-> "w", castle |-> "-", ep |-> <<"d", "6">>,
     half_move |-> 0, full_move |-> 1]

\* white may castle king-side, black queen-side: "r3k3/8/8/8/8/8/8/4K2R w Kq - 3 10"
WHITE_CASTLES ==
    [placement |-> <<"r", "3", "k", "3", "/", "8", "/", "8", "/", "8", "/", "8", "/", "8", "/", "8", "/", "4", "K", "2", "R">>,
     turn |-> "w", castle |-> "Kq", ep |-> <<"-">>,
     half_move |-> 3, full_move |-> 10]
\* black may castle king-side, white queen-side: "4k2r/8/8/8/8/8/8/R3K3 b Qk - 3 10"
BLACK_CASTLES ==
    [placement |-> <<"4", "k", "2", "r", "/", "8", "/", "8", "/", "8", "/", "8", "/", "8", "/", "8", "/", "R", "3", "K", "3">>,
     turn |-> "b", castle |-> "Qk", ep |-> <<"-">>,
     half_move |-> 3, full_move |-> 10]
\* kings and rooks at home after the king-side rights were lost: "4k2r/8/8/8/8/8/8/R3K2R w Q - 7 20"
HOME_NO_RIGHTS ==
    [placement |-> <<"4", "k", "2", "r", "/", "8", "/", "8", "/", "8", "/", "8", "/", "8", "/", "8", "/", "R", "3", "K", "2", "R">>,
     turn |-> "w", castle |-> "Q", ep |-> <<"-">>,
     half_move |-> 7, full_move |-> 20]
\* a white pawn on its starting rank beside a black pawn on the fourth rank: "4k3/8/8/8/5p2/8/4P3/4K3 w - - 0 1"
DOUBLE_PUSH ==
    [placement |-> <<"4", "k", "3", "/", "8", "/", "8", "/", "8", "/", "5", "p", "2", "/", "8", "/", "4", "P", "3", "/", "4", "K", "3">>,
     turn |-> "w", castle |-> "-", ep |-> <<"-">>,
     half_move |-> 0, full_move |-> 1]
\* EPCHECK with a queen in the place of the rook: "4k3/8/8/q2pP2K/8/8/8/8 w - d6 0 1"
EPCHECK_QUEEN ==
    [placement |-> <<"4", "k", "3", "/", "8", "/", "8", "/", "q", "2", "p", "P", "2", "K", "/", "8", "/", "8", "/", "8", "/", "8">>,
     turn |-> "w", castle |-> "-", ep |-> <<"d", "6">>,
     half_move |-> 0, full_move |-> 1]
\* the white king on g1 holding the king-side right: "4k3/8/8/8/8/8/8/6KR w K - 0 1"
KING_ON_G1 ==
    [placement |-> <<"4", "k", "3", "/", "8", "/", "8", "/", "8", "/", "8", "/", "8", "/", "8", "/", "6", "K", "R">>,
     turn |-> "w", castle |-> "K", ep |-> <<"-">>,
     half_move |-> 0, full_move |-> 1]
\* a white pawn on the seventh rank with the en-passant target behind the black pawn beside it: "7k/3pP3/8/8/8/8/8/4K3 w - d8 0 1"
EP_ON_LAST_RANK ==
    [placement |-> <<"7", "k", "/", "3", "p", "P", "3", "/", "8", "/", "8", "/", "8", "/", "8", "/", "8", "/", "4", "K", "3">>,
     turn |-> "w", castle |-> "-", ep |-> <<"d", "8">>,
     half_move |-> 0, full_move |-> 1]
\* white may castle queen-side while a black rook attacks b1: "1r2k3/8/8/8/8/8/8/R3K3 w Q - 0 1"
B1_ATTACKED ==
    [placement |-> <<"1", "r", "2", "k", "3", "/", "8", "/", "8", "/", "8", "/", "8", "/", "8", "/", "8", "/", "R", "3", "K", "3">>,
     turn |-> "w", castle |-> "Q", ep |-> <<"-">>,
     half_move |-> 0, full_move |-> 1]
\* a white queen that can take a pawn along a file and one along a diagonal: "4k3/5p2/2p5/8/8/5Q2/8/4K3 w - - 0 1"
QUEEN_TAKES ==
    [placement |-> <<"4", "k", "3", "/", "5", "p", "2", "/", "2", "p", "5", "/", "8", "/", "8", "/", "5", "Q", "2", "/", "8", "/", "4", "K", "3">>,
     turn |-> "w", castle |-> "-", ep |-> <<"-">>,
     half_move |-> 0, full_move |-> 1]
\* the black king two files from the white king, next to the squares of the queen-side castling: "8/8/8/8/8/8/2k5/R3K3 w Q - 0 1"
KINGS_NEAR ==
    [placement |-> <<"8", "/", "8", "/", "8", "/", "8", "/", "8", "/", "8", "/", "2", "k", "5", "/", "R", "3", "K", "3">>,
     turn |-> "w", castle |-> "Q", ep |-> <<"-">>,
     half_move |-> 0, full_move |-> 1]

\* The positions a run starts from: the crowded ones and the sparse ones, and
\* the ones followed for as many calls as a crowded one.
CrowdedFens == <<DEFAULT_FEN, KNPR, CASTLECHECK>>
SparseFens ==
    <<EPCHECK, EP_TARGET_TAKEN, WHITE_CASTLES, BLACK_CASTLES, HOME_NO_RIGHTS, DOUBLE_PUSH>>
ShortFens ==
    <<EPCHECK_QUEEN, KING_ON_G1, EP_ON_LAST_RANK, B1_ATTACKED, QUEEN_TAKES, KINGS_NEAR>>

\* ------------------------------------------------------------ state machine
VARIABLES
    board,      \* GameState.board
    turn,       \* GameState.turn
    castle,     \* GameState.castle
    ep_square,  \* GameState.ep_square
    half_move,  \* GameState.half_move
    full_move,  \* GameState.full_move
    prev,       \* the GameState as it was when the last call was made
    last,       \* the last call: its entry point and result, and for an
                \* accepted call its arguments
    calls_left  \* calls the run may still make

vars ==
    <<board, turn, castle, ep_square, half_move, full_move, prev, last, calls_left>>

\* the GameState the variables hold
Self ==
    [board |-> board, turn |-> turn, castle |-> castle, ep_square |-> ep_square,
     half_move |-> half_move, full_move |-> full_move]

NoCall ==
    [op |-> "new", res |-> Ok, captured |-> NoPiece,
     from |-> NoSquare, to |-> NoSquare, piece |-> NoPiece]

\* the caller's view of one call: the GameState becomes r.gs, the call is
\* remembered (the arguments of a rejected call are not kept)
Return(op, from, to, piece, r) ==
    /\ calls_left > 0
    /\ board' = r.gs.board
    /\ turn' = r.gs.turn
    /\ castle' = r.gs.castle
    /\ ep_square' = r.gs.ep_square
    /\ half_move' = r.gs.half_move
    /\ full_move' = r.gs.full_move
    /\ prev' = Self
    /\ last' = IF r.res = Ok
               THEN [op |-> op, res |-> Ok, captured |-> r.captured,
                     from |-> from, to |-> to, piece |-> piece]
               ELSE [NoCall EXCEPT !.op = op, !.res = r.res]
    /\ calls_left' = calls_left - 1

\* the state once try_from_fen returned r
Constructed(r, calls) ==
    /\ r.ok
    /\ board = r.val.board
    /\ turn = r.val.turn
    /\ castle = r.val.castle
    /\ ep_square = r.val.ep_square
    /\ half_move = r.val.half_move
    /\ full_move = r.val.full_move
    /\ prev = r.val
    /\ last = NoCall
    /\ calls_left = calls

InitFrom(fens, calls) ==
    \E i \in 1..Len(fens) : Constructed(try_from_fen(fens[i]), calls)

Init ==
    \/ InitFrom(CrowdedFens, MaxPlyCrowded)
    \/ InitFrom(SparseFens, MaxPly)
    \/ InitFrom(ShortFens, MaxPlyCrowded)

\* A call returns before it reads `to` when `from` holds no piece of the side
\* to move (make_move) or no pawn of the side to move (make_promotion): one
\* `to` then stands for all of them.
MoveTargets(from) ==
    IF get_sq(board, from).color = turn THEN Square ELSE {from}
PromotionTargets(from) ==
    IF get_sq(board, from) = Piece(turn, Pawn) THEN Square ELSE {from}

\* gs.make_move(from, to)
MakeMove ==
    \E from \in Square : \E to \in MoveTargets(from) :
        Return("make_move", from, to, NoPiece, make_move(Self, from, to))

\* The promotion pieces a caller passes: one of each colour that may be
\* promoted to, a king and a pawn.
PromotionPieces == {WHITE_QUEEN, BLACK_KNIGHT, WHITE_KING, BLACK_PAWN}

\* gs.make_promotion(from, to, promotion_piece)
MakePromotion ==
    \E from \in Square : \E to \in PromotionTargets(from) :
    \E piece \in PromotionPieces :
        Return("make_promotion", from, to, piece, make_promotion(Self, from, to, piece))

Next == MakeMove \/ MakePromotion

Spec == Init /\ [][Next]_vars

\* ---------------------------------------------------------------- attacks
\* What it means for a piece to attack a square, written from the rules of
\* the game and not from the engine's tables: the squares strictly between
\* two squares of one line, and the attack of each of the six figures.
Sign(x) == IF x > 0 THEN 1 ELSE IF x < 0 THEN -1 ELSE 0
Max(x, y) == IF x >= y THEN x ELSE y
ColDist(q, s) == Abs(col(s) - col(q))
RowDist(q, s) == Abs(row(s) - row(q))
OnStraightLine(q, s) == q # s /\ (col(q) = col(s) \/ row(q) = row(s))
OnDiagonal(q, s) == q # s /\ ColDist(q, s) = RowDist(q, s)

SquaresBetween(q, s) ==
    { from_coords(col(q) + k * Sign(col(s) - col(q)), row(q) + k * Sign(row(s) - row(q))) :
        k \in 1..(Max(ColDist(q, s), RowDist(q, s)) - 1) }

PathEmpty(b, q, s) == \A x \in SquaresBetween(q, s) : get_sq(b, x) = NoPiece

\* the piece standing on q attacks the square s
PieceAttacks(b, q, s) ==
    LET p == get_sq(b, q)
    IN  CASE p = NoPiece -> FALSE
          [] p.figure = King -> q # s /\ ColDist(q, s) <= 1 /\ RowDist(q, s) <= 1
          [] p.figure = Knight -> {ColDist(q, s), RowDist(q, s)} = {1, 2}
          [] p.figure = Pawn ->
                /\ ColDist(q, s) = 1
                /\ row(s) - row(q) = (IF p.color = White THEN 1 ELSE -1)
          [] p.figure = Rook -> OnStraightLine(q, s) /\ PathEmpty(b, q, s)
          [] p.figure = Bishop -> OnDiagonal(q, s) /\ PathEmpty(b, q, s)
          [] p.figure = Queen ->
                (OnStraightLine(q, s) \/ OnDiagonal(q, s)) /\ PathEmpty(b, q, s)

\* some piece of the colour opposite to `color` attacks the square s
TrulyAttacked(b, s, color) ==
    \E q \in Square : get_sq(b, q).color = NotColor(color) /\ PieceAttacks(b, q, s)

\* the squares holding a king of the colour
KingSquares(b, color) == {s \in Square : get_sq(b, s) = Piece(color, King)}

\* the last call was a call of make_move or make_promotion that returned Ok
Accepted == last.op # "new" /\ last.res = Ok
\* the last call returned an error
Rejected == last.res # Ok

\* ------------------------------------------------------------------ claims
\* C1: after every successful make_move or make_promotion the king of the
\* side that just moved is attacked by no opposing piece of any of the six
\* figure types, and a call that returns KingInCheck leaves the board as it
\* was.
C1_KingSafeAfterMove ==
    /\ Accepted =>
          \A k \in KingSquares(board, prev.turn) : ~TrulyAttacked(board, k, prev.turn)
    /\ last.res = KingInCheck => board = prev.board

\* C2: in every state reached from a constructed GameState by make_move and
\* make_promotion calls the board holds exactly one white king and exactly
\* one black king.
C2_OneKingEach ==
    /\ Cardinality(KingSquares(board, White)) = 1
    /\ Cardinality(KingSquares(board, Black)) = 1
    /\ count_pieces(board, WHITE_KING) = 1
    /\ count_pieces(board, BLACK_KING) = 1

\* C3: all-or-nothing on rejection: when make_move or make_promotion returns
\* an error, the whole GameState (mailbox, bitboards, turn, castling rights,
\* en-passant target, half-move clock, full-move counter) equals the state
\* before the call.
C3_RejectionChangesNothing == Rejected => Self = prev

\* C4: is_square_attacked(square, color) is true if and only if some piece of
\* the opposite colour attacks the square, for all six figure types.
C4_AttackedIffSomePieceAttacks ==
    \A s \in Square : \A c \in Color :
        is_square_attacked(board, s, c) <=> TrulyAttacked(board, s, c)

\* ----------------------------------------------------------------- castling
\* the rank a colour castles on, the two wings, and the squares of each
HomeRow(color) == IF color = White THEN RowOne ELSE RowEight
KingSide == "king-side"
QueenSide == "queen-side"
Wing == {KingSide, QueenSide}
KingHome(color) == from_coords(ColE, HomeRow(color))
KingTarget(color, wing) ==
    from_coords(IF wing = KingSide THEN ColG ELSE ColC, HomeRow(color))
RookHome(color, wing) ==
    from_coords(IF wing = KingSide THEN ColH ELSE ColA, HomeRow(color))
RookTarget(color, wing) ==
    from_coords(IF wing = KingSide THEN ColF ELSE ColD, HomeRow(color))

\* the colour holds the wing's castling right in the rights c
HasRight(c, color, wing) ==
    Bit(c, (IF color = White THEN 0 ELSE 2) + (IF wing = KingSide THEN 0 ELSE 1)) = 1

\* an ordinary king move: one step, not onto a piece of the king's colour
OrdinaryKingMove(gs, from, to) ==
    /\ from # to /\ ColDist(from, to) <= 1 /\ RowDist(from, to) <= 1
    /\ get_sq(gs.board, to).color # gs.turn

\* make_move(from, to) in gs is a castling attempt on the wing: the mover's
\* king stands on from, to is the wing's target square, and the move is not
\* an ordinary king move
CastleTry(gs, from, to, wing) ==
    /\ get_sq(gs.board, from) = Piece(gs.turn, King)
    /\ to = KingTarget(gs.turn, wing)
    /\ ~OrdinaryKingMove(gs, from, to)

\* the last call was an accepted castling on the wing
Castled(wing) ==
    Accepted /\ last.op = "make_move" /\ CastleTry(prev, last.from, last.to, wing)

\* the squares the king passes, from its origin through its destination
Traversed(from, to) == {from, to} \cup SquaresBetween(from, to)

\* the pieces of one colour on a board
PiecesOf(b, color) == {s \in Square : get_sq(b, s).color = color}

\* in the state at hand every call make_move(from, to) with an empty from
\* returns EmptySquare and every call with a piece of the side not to move on
\* from returns WrongTurn, whatever to is, and leaves the GameState as it is;
\* a call that returned one of the two has changed nothing
SourceSquareChecked ==
    /\ \A from \in Square :
          /\ get_sq(board, from) = NoPiece
                => \A to \in Square :
                      make_move(Self, from, to) = MoveErr(Self, EmptySquare)
          /\ get_sq(board, from).color = NotColor(turn)
                => \A to \in Square :
                      make_move(Self, from, to) = MoveErr(Self, WrongTurn)
    /\ (last.op = "make_move" /\ last.res \in {EmptySquare, WrongTurn}) => Self = prev

\* C5: make_move(from, to) returns EmptySquare when from holds no piece and
\* WrongTurn when the piece on from belongs to the side not to move, for
\* every to, and neither changes any state.
C5_SourceSquareChecked == []SourceSquareChecked

\* a make_move call was rejected with WrongTurn and left the state as it was
C5_Witness ==
    /\ last.op = "make_move" /\ last.res = WrongTurn /\ Self = prev
    /\ \E from \in Square : get_sq(board, from).color = NotColor(turn)

\* C6: a castling succeeds only if every square between the king and the
\* castling rook is empty, and a successful castling captures and overwrites
\* nothing: each colour has as many pieces after it as before.
C6_CastlingNeedsEmptySquares ==
    \A wing \in Wing :
        Castled(wing) =>
            /\ PathEmpty(prev.board, last.from, RookHome(prev.turn, wing))
            /\ \A c \in Color :
                  Cardinality(PiecesOf(board, c)) = Cardinality(PiecesOf(prev.board, c))

\* C7: a castling is rejected whenever a square the king traverses, from its
\* origin through its destination, is attacked by an opposing piece of any
\* figure type: an accepted castling traversed unattacked squares only.
C7_CastlingNeedsSafeSquares ==
    \A wing \in Wing :
        Castled(wing) =>
            \A s \in Traversed(last.from, last.to) :
                ~TrulyAttacked(prev.board, s, prev.turn)

\* the case C8 is about: the king on its e-file home square castled on the
\* wing, holding the right, its rook at home, the squares between them empty
\* and the traversed squares unattacked
CleanCastle(wing) ==
    /\ Castled(wing)
    /\ last.from = KingHome(prev.turn)
    /\ HasRight(prev.castle, prev.turn, wing)
    /\ get_sq(prev.board, RookHome(prev.turn, wing)) = Piece(prev.turn, Rook)
    /\ PathEmpty(prev.board, last.from, RookHome(prev.turn, wing))
    /\ \A s \in Traversed(last.from, last.to) : ~TrulyAttacked(prev.board, s, prev.turn)

\* C8: a successful king-side castling moves the king to the g-file and the
\* h-file rook to the f-file, a queen-side one the king to the c-file and the
\* a-file rook to the d-file; nothing else on the board changes; the call
\* returns Ok(None), removes both rights of the mover, leaves the opponent's
\* rights, clears the en-passant target, adds one to the half-move clock and
\* flips the turn.
C8_CastlingEffects ==
    \A wing \in Wing :
        CleanCastle(wing) =>
            LET mover == prev.turn
                moved == {KingHome(mover), KingTarget(mover, wing),
                          RookHome(mover, wing), RookTarget(mover, wing)}
            IN  /\ get_sq(board, KingTarget(mover, wing)) = Piece(mover, King)
                /\ get_sq(board, RookTarget(mover, wing)) = Piece(mover, Rook)
                /\ get_sq(board, KingHome(mover)) = NoPiece
                /\ get_sq(board, RookHome(mover, wing)) = NoPiece
                /\ \A s \in Square \ moved : get_sq(board, s) = get_sq(prev.board, s)
                /\ get_piece_board(board, Piece(mover, King))
                       = {KingTarget(mover, wing)}
                /\ RookTarget(mover, wing) \in get_piece_board(board, Piece(mover, Rook))
                /\ RookHome(mover, wing) \notin board.occupied
                /\ last.captured = NoPiece
                /\ \A w \in Wing :
                      /\ ~HasRight(castle, mover, w)
                      /\ HasRight(castle, NotColor(mover), w)
                            <=> HasRight(prev.castle, NotColor(mover), w)
                /\ ep_square = NoSquare
                /\ half_move = prev.half_move + 1
                /\ turn = NotColor(mover)

\* white has castled queen-side: its king stands on c1 and its rook on d1
C8_Witness ==
    /\ CleanCastle(QueenSide)
    /\ prev.turn = White
    /\ get_sq(board, RookTarget(White, QueenSide)) = WHITE_ROOK

\* a castling attempt without the wing's right is rejected with IllegalMove
\* and changes nothing
NoRightNoCastling ==
    \A from \in KingSquares(board, turn) : \A wing \in Wing :
        (CastleTry(Self, from, KingTarget(turn, wing), wing)
            /\ ~HasRight(castle, turn, wing))
        => make_move(Self, from, KingTarget(turn, wing)) = MoveErr(Self, IllegalMove)

\* one step: a right that is not held is not held afterwards; after an
\* accepted move of a king its colour holds no right; when a rook is no
\* longer on its home square its colour does not hold that wing's right
RightsStayLost ==
    \A c \in Color : \A wing \in Wing :
        /\ ~HasRight(castle, c, wing) => ~HasRight(castle', c, wing)
        /\ (last'.op # "new" /\ last'.res = Ok
                /\ get_sq(board, last'.from) = Piece(c, King))
           => ~HasRight(castle', c, wing)
        /\ (get_sq(board, RookHome(c, wing)) = Piece(c, Rook)
                /\ get_sq(board', RookHome(c, wing)) # Piece(c, Rook))
           => ~HasRight(castle', c, wing)

\* C9: castling on a wing is rejected with IllegalMove, the state unchanged,
\* whenever the mover does not hold that wing's right; and once a king has
\* moved or a rook has left its home square the right is gone in every later
\* state, so that castling stays rejected even with the pieces back home.
C9_NoCastlingWithoutRight == [](NoRightNoCastling) /\ [][RightsStayLost]_vars

\* the king and the king-side rook of the side to move are at home with the
\* squares between them empty, the right is not held and the castling is
\* rejected; the call before was the opponent's rook leaving its a-file home
\* square, which took the opponent's queen-side right
C9_Witness ==
    /\ get_sq(board, KingHome(turn)) = Piece(turn, King)
    /\ get_sq(board, RookHome(turn, KingSide)) = Piece(turn, Rook)
    /\ PathEmpty(board, KingHome(turn), RookHome(turn, KingSide))
    /\ ~HasRight(castle, turn, KingSide)
    /\ make_move(Self, KingHome(turn), KingTarget(turn, KingSide))
           = MoveErr(Self, IllegalMove)
    /\ Accepted
    /\ last.from = RookHome(prev.turn, QueenSide)
    /\ get_sq(prev.board, last.from) = Piece(prev.turn, Rook)
    /\ HasRight(prev.castle, prev.turn, QueenSide)
    /\ ~HasRight(castle, prev.turn, QueenSide)

\* the last accepted call takes the wing's right from the colour: its own
\* king moved, its own rook moved from the wing's home square, or the
\* opponent's piece landed on the wing's rook home square
RightRemoved(color, wing) ==
    LET moved == get_sq(prev.board, last.from)
    IN  \/ color = prev.turn /\ moved.figure = King
        \/ color = prev.turn /\ moved.figure = Rook /\ last.from = RookHome(color, wing)
        \/ color # prev.turn /\ last.to = RookHome(color, wing)

\* C10: on every successful move the castling rights change as follows and in
\* no other way: a king move removes both rights of the mover, a rook move
\* from the mover's a-file (h-file) home square the mover's queen-side
\* (king-side) right, a move landing on the opponent's a-file (h-file) rook
\* home square the opponent's queen-side (king-side) right; a rejected call
\* changes no right.
C10_RightsUpdate ==
    /\ Accepted =>
          \A c \in Color : \A wing \in Wing :
              HasRight(castle, c, wing)
                  <=> (HasRight(prev.castle, c, wing) /\ ~RightRemoved(c, wing))
    /\ Rejected => castle = prev.castle
    /\ castle \in Castle

\* a white rook went from a1 to a8 and took the rook there: white lost its
\* queen-side right, black its queen-side right, white's king-side right stays
C10_Witness ==
    /\ Accepted
    /\ last.from = A1 /\ last.to = A8
    /\ last.captured = BLACK_ROOK
    /\ prev.castle = Castle_KQq
    /\ castle = Castle_K

\* ---------------------------------------------------------------- pawns
\* the ranks of a colour's pawns and the direction they move in
StartRow(color) == IF color = White THEN RowTwo ELSE RowSeven
PassedRow(color) == IF color = White THEN RowThree ELSE RowSix
DoublePushRow(color) == IF color = White THEN RowFour ELSE RowFive
LastRow(color) == IF color = White THEN RowEight ELSE RowOne
Forward(color) == IF color = White THEN 1 ELSE -1

\* to is one step diagonally forward of from for a pawn of the colour
PawnDiagonal(from, to, color) ==
    ColDist(from, to) = 1 /\ row(to) - row(from) = Forward(color)

\* the square of the pawn an en-passant capture from -> to removes
PassedPawnSquare(from, to) == from_coords(col(to), row(from))

\* a board known by its mailbox alone
OnlyMailbox(m) == [mailbox |-> m]

\* the mailbox after the en-passant capture from -> to by the side to move
MailboxAfterEnPassant(gs, from, to) ==
    [gs.board.mailbox EXCEPT ![from] = NoPiece,
                             ![PassedPawnSquare(from, to)] = NoPiece,
                             ![to] = Piece(gs.turn, Pawn)]

\* make_move(from, to) in gs is an en-passant capture that does not expose
\* the mover's king: a pawn of the side to move on from, to the en-passant
\* target, diagonally ahead and empty, an enemy pawn beside the capturing
\* pawn in to's column
EnPassantCase(gs, from, to) ==
    /\ get_sq(gs.board, from) = Piece(gs.turn, Pawn)
    /\ gs.ep_square # NoSquare /\ to = gs.ep_square
    /\ PawnDiagonal(from, to, gs.turn)
    /\ get_sq(gs.board, to) = NoPiece
    /\ get_sq(gs.board, PassedPawnSquare(from, to)) = Piece(NotColor(gs.turn), Pawn)
    /\ \A k \in KingSquares(gs.board, gs.turn) :
          ~TrulyAttacked(OnlyMailbox(MailboxAfterEnPassant(gs, from, to)), k, gs.turn)

\* the result r of an en-passant capture from -> to made in gs is as it
\* should be
EnPassantDone(gs, from, to, r) ==
    LET enemy_pawn == Piece(NotColor(gs.turn), Pawn)
        passed == PassedPawnSquare(from, to)
    IN  /\ r.res = Ok
        /\ r.captured = enemy_pawn
        /\ r.gs.board.mailbox = MailboxAfterEnPassant(gs, from, to)
        /\ get_piece_board(r.gs.board, enemy_pawn)
               = get_piece_board(gs.board, enemy_pawn) \ {passed}
        /\ get_piece_board(r.gs.board, Piece(gs.turn, Pawn))
               = (get_piece_board(gs.board, Piece(gs.turn, Pawn)) \ {from}) \cup {to}
        /\ r.gs.board.occupied = (gs.board.occupied \ {from, passed}) \cup {to}

DoublePush(gs, from, to) ==
    /\ get_sq(gs.board, from) = Piece(gs.turn, Pawn)
    /\ row(from) = StartRow(gs.turn) /\ row(to) = DoublePushRow(gs.turn)
    /\ col(from) = col(to)

\* C12: after a successful move the en-passant target is set if and only if
\* the move was a double push made by make_move, and is then the square the
\* pawn passed over; every other successful move clears it. An accepted
\* diagonal pawn move onto an empty square went to the target of the state
\* it was made in, and a diagonal pawn move onto an empty square that is not
\* the target is rejected with IllegalMove.
C12_EnPassantWindow ==
    /\ Accepted =>
          IF last.op = "make_move" /\ DoublePush(prev, last.from, last.to)
          THEN ep_square = from_coords(col(last.from), PassedRow(prev.turn))
          ELSE ep_square = NoSquare
    /\ (Accepted /\ last.op = "make_move"
            /\ get_sq(prev.board, last.from) = Piece(prev.turn, Pawn)
            /\ PawnDiagonal(last.from, last.to, prev.turn)
            /\ get_sq(prev.board, last.to) = NoPiece)
       => last.to = prev.ep_square
    /\ \A from \in Square : \A to \in Square :
          (/\ get_sq(board, from) = Piece(turn, Pawn)
           /\ PawnDiagonal(from, to, turn)
           /\ get_sq(board, to) = NoPiece
           /\ to # ep_square)
          => make_move(Self, from, to) = MoveErr(Self, IllegalMove)

\* a double push has just been made: the target is the square passed over
\* and a pawn of the other side stands ready to capture en passant
C12_Witness ==
    /\ Accepted /\ last.op = "make_move"
    /\ DoublePush(prev, last.from, last.to)
    /\ ep_square = from_coords(col(last.from), PassedRow(prev.turn))
    /\ \E from \in Square : EnPassantCase(Self, from, ep_square)

\* make_move(from, to) in gs is an en-passant capture attempt: as
\* EnPassantCase, whatever becomes of the mover's king
EnPassantTry(gs, from, to) ==
    /\ get_sq(gs.board, from) = Piece(gs.turn, Pawn)
    /\ gs.ep_square # NoSquare /\ to = gs.ep_square
    /\ PawnDiagonal(from, to, gs.turn)
    /\ get_sq(gs.board, to) = NoPiece
    /\ get_sq(gs.board, PassedPawnSquare(from, to)) = Piece(NotColor(gs.turn), Pawn)

\* with both pawns gone from from's rank an enemy rook or queen on that rank
\* attacks the mover's king on that rank
ExposedOnRank(gs, from, to) ==
    \E k \in KingSquares(gs.board, gs.turn) : \E q \in Square :
        /\ row(k) = row(from) /\ row(q) = row(from)
        /\ get_sq(gs.board, q).color = NotColor(gs.turn)
        /\ get_sq(gs.board, q).figure \in {Rook, Queen}
        /\ PieceAttacks(OnlyMailbox(MailboxAfterEnPassant(gs, from, to)), q, k)

\* C13: the check test of an en-passant capture is made on the board with
\* the capturing pawn moved and the passed pawn removed: when that exposes
\* the mover's king to an enemy slider along the rank, make_move returns
\* KingInCheck, both pawns are back on their squares and the en-passant
\* target is still set.
C13_EnPassantCheckTest ==
    \A from \in Square : \A to \in Square :
        (EnPassantTry(Self, from, to) /\ ExposedOnRank(Self, from, to))
            => make_move(Self, from, to) = MoveErr(Self, KingInCheck)

\* the mover's king is attacked once the piece on from stands on to
ExposedByMove(gs, from, to) ==
    \E k \in KingSquares(move_piece(gs.board, from, to).board, gs.turn) :
        TrulyAttacked(move_piece(gs.board, from, to).board, k, gs.turn)

\* C14: make_move never completes a pawn move onto the farthest rank: no
\* accepted make_move took a pawn there, and a push or capture of pawn_moves
\* to that rank is rejected and changes nothing, with Promoting when the
\* move leaves the mover's king safe.
C14_PromotingRejection ==
    /\ (Accepted /\ last.op = "make_move"
            /\ get_sq(prev.board, last.from) = Piece(prev.turn, Pawn))
        => row(last.to) # LastRow(prev.turn)
    /\ \A from \in Square : \A to \in Square :
        (/\ get_sq(board, from) = Piece(turn, Pawn)
         /\ row(to) = LastRow(turn)
         /\ contains(pawn_moves(board, from, turn), to))
            => /\ make_move(Self, from, to).res # Ok
               /\ make_move(Self, from, to).gs = Self
               /\ ~ExposedByMove(Self, from, to)
                    => make_move(Self, from, to).res = Promoting

\* the pieces a pawn of this colour may be promoted to
LegalPromotionPieces(color) == {Piece(color, f) : f \in {Queen, Rook, Bishop, Knight}}

\* r is what make_promotion(from, to, piece) returned in gs: Ok with the
\* piece that stood on to, from empty, to holding the promotion piece and no
\* pawn, clock 0, no en-passant target, the turn flipped
PromotionDone(gs, from, to, piece, r) ==
    /\ r.res = Ok
    /\ r.captured = get_sq(gs.board, to)
    /\ get_sq(r.gs.board, from) = NoPiece
    /\ get_sq(r.gs.board, to) = piece
    /\ ~contains(get_piece_board(r.gs.board, Piece(gs.turn, Pawn)), to)
    /\ contains(get_piece_board(r.gs.board, piece), to)
    /\ r.gs.half_move = 0
    /\ r.gs.ep_square = NoSquare
    /\ r.gs.turn = NotColor(gs.turn)

\* C15: where make_move(from, to) returns Promoting, make_promotion(from,
\* to, piece) with a legal promotion piece succeeds: from is empty, to holds
\* the promotion piece and no pawn, the piece that stood on to is returned,
\* the half-move clock is 0, the en-passant target is None and the turn has
\* flipped.
C15_PromotionAfterPromoting ==
    \A from \in Square :
        get_sq(board, from) = Piece(turn, Pawn) =>
            \A to \in {s \in Square : row(s) = LastRow(turn)} :
                make_move(Self, from, to).res = Promoting =>
                    \A piece \in LegalPromotionPieces(turn) :
                        PromotionDone(Self, from, to, piece,
                                      make_promotion(Self, from, to, piece))

\* a pawn whose make_move was answered Promoting has just been promoted to a
\* queen by make_promotion
C15_Witness ==
    /\ Accepted /\ last.op = "make_promotion"
    /\ last.piece = Piece(prev.turn, Queen)
    /\ make_move(prev, last.from, last.to).res = Promoting
    /\ get_sq(board, last.to) = last.piece
    /\ get_sq(board, last.from) = NoPiece
    /\ half_move = 0 /\ turn = NotColor(prev.turn)

\* C16: make_promotion(from, to, piece) is rejected whenever to is not on
\* the mover's farthest rank: an accepted make_promotion ended on that rank,
\* so a pawn is replaced by another figure on no other rank.
C16_PromotionOnlyOnLastRank ==
    (Accepted /\ last.op = "make_promotion") => row(last.to) = LastRow(prev.turn)

\* C17: make_promotion only places a promotion piece of the colour of the
\* side to move whose figure is neither Pawn nor King: a call with another
\* piece is rejected and leaves the state unchanged.
C17_PromotionPieceChecked ==
    /\ (Accepted /\ last.op = "make_promotion")
        => last.piece \in LegalPromotionPieces(prev.turn)
    /\ \A from \in Square : \A to \in Square :
        \A piece \in PromotionPieces \ LegalPromotionPieces(turn) :
            /\ make_promotion(Self, from, to, piece).res # Ok
            /\ make_promotion(Self, from, to, piece).gs = Self

\* ----------------------------------------------------------------- counters
\* the last call was accepted and moved a pawn (push, capture, en passant or
\* promotion)
PawnMoved == Accepted /\ get_sq(prev.board, last.from).figure = Pawn

\* the last call was accepted and took the piece that stood on its
\* destination (castling takes none)
PieceTaken ==
    /\ Accepted
    /\ ~(Castled(KingSide) \/ Castled(QueenSide))
    /\ get_sq(prev.board, last.to) # NoPiece

\* C18: on every successful move the half-move clock becomes 0 if the move
\* was a pawn move or captured a piece, and otherwise its previous value
\* plus one, castling included.
C18_HalfMoveClock ==
    Accepted =>
        /\ (last.captured # NoPiece) <=> (PieceTaken \/ EnPassantTry(prev, last.from, last.to))
        /\ half_move = IF PawnMoved \/ PieceTaken THEN 0 ELSE prev.half_move + 1

\* a rook has just made a quiet move from a position whose clock stood at 3
C18_Witness ==
    /\ Accepted /\ last.op = "make_move"
    /\ get_sq(prev.board, last.from).figure = Rook
    /\ last.captured = NoPiece /\ ~PieceTaken
    /\ prev.half_move = 3 /\ half_move = 4

\* one call: accepted, it flips the turn and counts a full move when Black
\* moved; rejected, it changes neither
TurnStep ==
    /\ last'.res = Ok
        => /\ turn' = NotColor(turn)
           /\ full_move' = IF turn = Black THEN full_move + 1 ELSE full_move
    /\ last'.res # Ok
        => /\ turn' = turn
           /\ full_move' = full_move

\* C19: every successful make_move or make_promotion flips the side to move
\* once, and the full-move counter grows by 1 when the mover was Black and
\* stays when the mover was White; a rejected call changes neither, so the
\* turn alternates with the successful moves.
C19_TurnAndFullMove == [][TurnStep]_vars

\* Black has just moved from a position at full move 10: White is to move at
\* full move 11
C19_Witness ==
    /\ Accepted
    /\ prev.turn = Black /\ turn = White
    /\ prev.full_move = 10 /\ full_move = 11

\* C20: a null move is never valid: in every reachable state and for every
\* square s, make_move(s, s) returns an error and changes nothing, whatever
\* stands on s, a king on a castling destination square included.
C20_NullMoveRejected ==
    \A s \in Square :
        /\ make_move(Self, s, s).res # Ok
        /\ make_move(Self, s, s).gs = Self

\* ------------------------------------------------------------------- board
\* C21: the value a successful make_move returns accounts for every piece
\* that left the board: with None the count of each of the 12 piece kinds is
\* unchanged; with Some(p), p is of the opponent's colour, the count of p
\* went down by one and every other count is unchanged.
C21_CapturedAccountsForAll ==
    (Accepted /\ last.op = "make_move") =>
        /\ last.captured # NoPiece => last.captured.color = NotColor(prev.turn)
        /\ \A P \in Pieces :
            count_pieces(board, P) =
                count_pieces(prev.board, P) - (IF P = last.captured THEN 1 ELSE 0)

\* ------------------------------------------------- the Board on its own
\* A Board driven through its public operations set_sq, clear_sq, move_piece
\* and unmove_piece, from Board::new(), on a few squares (two corners and a
\* centre square) with pieces of both colours. The
\* GameState fields around the board stay as they are.
BoardSquares == {A1, from_coords(ColE, RowFour), H8}
BoardPieces == {WHITE_PAWN, WHITE_KING, BLACK_ROOK}

\* the unmove_piece(from, to, captured) about to be called takes back the
\* move_piece(from, to) that was the last call, with the piece it returned
Undoes(from, to, captured) ==
    /\ last.op = "move_piece"
    /\ last.from = from /\ last.to = to
    /\ last.captured = captured

\* one call on the board: it becomes b1, the call and what it returned are
\* remembered; prev is the board before the call, and for an unmove_piece
\* that takes back the last move_piece the board before that move
BoardReturn(op, from, to, piece, b1, ret, undo) ==
    /\ board' = b1
    /\ prev' = IF undo THEN prev ELSE board
    /\ last' = [op |-> op, res |-> Ok, captured |-> ret,
                from |-> from, to |-> to, piece |-> piece, undo |-> undo]
    /\ UNCHANGED <<turn, castle, ep_square, half_move, full_move, calls_left>>

\* Board::new(), no call made yet
BoardInit ==
    /\ board = Board_new
    /\ prev = Board_new
    /\ last = [NoCall EXCEPT !.op = "Board::new"]
    /\ turn = White
    /\ castle = Castle_Null
    /\ ep_square = NoSquare
    /\ half_move = 0
    /\ full_move = 1
    /\ calls_left = 0

\* board.set_sq(square, piece)
SetSq ==
    \E square \in BoardSquares : \E piece \in BoardPieces :
        BoardReturn("set_sq", NoSquare, square, piece,
                    set_sq(board, square, piece).board,
                    set_sq(board, square, piece).ret, FALSE)

\* board.clear_sq(square)
ClearSq ==
    \E square \in BoardSquares :
        BoardReturn("clear_sq", NoSquare, square, NoPiece,
                    clear_sq(board, square).board,
                    clear_sq(board, square).ret, FALSE)

\* board.move_piece(from, to)
MovePiece ==
    \E from \in BoardSquares : \E to \in BoardSquares :
        BoardReturn("move_piece", from, to, NoPiece,
                    move_piece(board, from, to).board,
                    move_piece(board, from, to).ret, FALSE)

\* board.unmove_piece(from, to, captured)
UnmovePiece ==
    \E from \in BoardSquares : \E to \in BoardSquares :
    \E captured \in BoardPieces \cup {NoPiece} :
        BoardReturn("unmove_piece", from, to, captured,
                    unmove_piece(board, from, to, captured),
                    NoPiece, Undoes(from, to, captured))

BoardNext == SetSq \/ ClearSq \/ MovePiece \/ UnmovePiece

BoardSpec == BoardInit /\ [][BoardNext]_vars

\* mailbox and piece bitboards of b agree: s holds P exactly when P's
\* bitboard contains s, and no square is in two of the 12 piece bitboards
MailboxAgrees(b) ==
    /\ \A s \in Square : \A P \in Pieces :
        (get_sq(b, s) = P) <=> contains(get_piece_board(b, P), s)
    /\ \A P \in Pieces : \A Q \in Pieces \ {P} :
        get_piece_board(b, P) \cap get_piece_board(b, Q) = {}

\* C22: after any sequence of set_sq, clear_sq, move_piece and unmove_piece
\* on a Board, get_sq(s) is Some(P) if and only if P's bitboard contains s,
\* and no square is contained in more than one of the 12 piece bitboards.
C22_MailboxBitboardAgreement == MailboxAgrees(board)

\* set_sq has just replaced a piece by one of another kind
C22_Witness ==
    /\ last.op = "set_sq"
    /\ last.captured # NoPiece /\ last.captured # last.piece
    /\ get_sq(board, last.to) = last.piece
    /\ ~contains(get_piece_board(board, last.captured), last.to)

\* C23: for every board and squares from # to with from occupied, with
\* captured what move_piece(from, to) returned, unmove_piece(from, to,
\* captured) restores the board exactly (mailbox, the 12 piece bitboards,
\* both colour occupancies and the overall occupancy), whether or not to was
\* occupied: for every move that can be made on the current board, and for
\* the move the last call has taken back.
C23_MoveUnmoveInverse ==
    /\ (/\ last.op = "unmove_piece" /\ last.undo
        /\ last.from # last.to
        /\ get_sq(prev, last.from) # NoPiece)
            => board = prev
    /\ \A from \in Square :
        get_sq(board, from) # NoPiece =>
            \A to \in Square \ {from} :
                unmove_piece(move_piece(board, from, to).board, from, to,
                             move_piece(board, from, to).ret) = board

\* unmove_piece has just taken back a move_piece that captured: the board is
\* the one before the move, the captured piece back on to
C23_Witness ==
    /\ last.op = "unmove_piece" /\ last.undo
    /\ last.from # last.to
    /\ last.piece # NoPiece
    /\ get_sq(prev, last.from) # NoPiece
    /\ get_sq(board, last.to) = last.piece
    /\ board = prev

\* the union of the six figure bitboards of a colour
FiguresUnion(b, color) ==
    UNION {get_piece_board(b, Piece(color, f)) : f \in Figure}

\* C30: after any sequence of set_sq, clear_sq, move_piece and unmove_piece
\* each colour's occupancy bitboard is the union of that colour's six figure
\* bitboards, the overall occupancy is the union of the two colour
\* occupancies, and the two colour occupancies are disjoint, also when
\* set_sq overwrites a piece of the other colour.
C30_OccupancyBookkeeping ==
    /\ \A color \in Color : occupied_color(board, color) = FiguresUnion(board, color)
    /\ board.occupied = occupied_color(board, White) \cup occupied_color(board, Black)
    /\ occupied_color(board, White) \cap occupied_color(board, Black) = {}

\* set_sq has just overwritten a piece of the other colour
C30_Witness ==
    /\ last.op = "set_sq"
    /\ last.captured # NoPiece
    /\ last.captured.color = NotColor(last.piece.color)
    /\ contains(occupied_color(board, last.piece.color), last.to)
    /\ ~contains(occupied_color(board, last.captured.color), last.to)
    /\ contains(board.occupied, last.to)

\* the squares a pawn of the colour on from may go to by a push or a
\* capture on b: one step forward if empty, two steps forward from the
\* starting rank if both squares are empty, and the forward diagonals that
\* hold an enemy piece
PawnTargets(b, from, color) ==
    {to \in Square :
        \/ /\ col(to) = col(from)
           /\ row(to) = row(from) + Forward(color)
           /\ get_sq(b, to) = NoPiece
        \/ /\ col(to) = col(from)
           /\ row(from) = StartRow(color)
           /\ row(to) = row(from) + 2 * Forward(color)
           /\ get_sq(b, from_coords(col(from), row(from) + Forward(color))) = NoPiece
           /\ get_sq(b, to) = NoPiece
        \/ /\ PawnDiagonal(from, to, color)
           /\ get_sq(b, to).color = NotColor(color)}

\* C24: pawn_moves(from, color) is exactly the single push if empty, the
\* double push from the starting rank if both squares are empty, and each
\* forward diagonal occupied by an enemy piece, on every reachable board,
\* for every square and both colours.
C24_PawnMovesExact ==
    \A from \in Square : \A color \in Color :
        pawn_moves(board, from, color) = PawnTargets(board, from, color)

\* a pawn of the side to move stands on its starting rank with its single
\* push, its double push and a capture all among its pawn_moves
C24_Witness ==
    \E from \in Square :
        /\ get_sq(board, from) = Piece(turn, Pawn)
        /\ row(from) = StartRow(turn)
        /\ contains(pawn_moves(board, from, turn),
                    from_coords(col(from), row(from) + Forward(turn)))
        /\ contains(pawn_moves(board, from, turn),
                    from_coords(col(from), row(from) + 2 * Forward(turn)))
        /\ \E to \in pawn_moves(board, from, turn) : PawnDiagonal(from, to, turn)

\* --------------------------------------------------- BitBoard::shift alone
\* A BitBoard shifted by every COLS, ROWS in -7..7. board is the bitboard,
\* prev the one it was shifted from. A shift is an AND with a mask followed
\* by a shift of the word, both of which act bit by bit: the one-square
\* boards stand for all boards, and the rows, the columns and the full
\* board are there as boards of many bits.
ShiftBoards ==
    {from_square(s) : s \in Square}
        \cup {from_row(r) : r \in RowOne..RowEight}
        \cup {from_col(c) : c \in ColA..ColH}
        \cup {Square}
ShiftRange == -7..7

ShiftInit ==
    /\ board \in ShiftBoards
    /\ prev = board
    /\ last = [op |-> "BitBoard", cols |-> 0, rows |-> 0]
    /\ turn = White
    /\ castle = Castle_Null
    /\ ep_square = NoSquare
    /\ half_move = 0
    /\ full_move = 1
    /\ calls_left = MaxShifts

\* board.shift::<COLS, ROWS>()
Shift ==
    \E COLS \in ShiftRange : \E ROWS \in ShiftRange :
        /\ calls_left > 0
        /\ board' = shift(board, COLS, ROWS)
        /\ prev' = board
        /\ last' = [op |-> "shift", cols |-> COLS, rows |-> ROWS]
        /\ calls_left' = calls_left - 1
        /\ UNCHANGED <<turn, castle, ep_square, half_move, full_move>>

ShiftSpec == ShiftInit /\ [][Shift]_vars

\* the squares (col + COLS, row + ROWS) of the squares (col, row) of b whose
\* shifted coordinates both stay on the board
ShiftedSquares(b, COLS, ROWS) ==
    {from_coords(col(s) + COLS, row(s) + ROWS) :
        s \in {t \in b : /\ col(t) + COLS \in 0..7
                         /\ row(t) + ROWS \in 0..7}}

\* C25: shift<COLS, ROWS> never wraps around a board edge: for COLS, ROWS in
\* -7..7 the result is exactly the squares (col + COLS, row + ROWS) of the
\* squares of the board whose shifted coordinates stay within 0..7, and it
\* fits in 64 bits.
C25_ShiftNeverWraps ==
    last.op = "shift" =>
        /\ board = ShiftedSquares(prev, last.cols, last.rows)
        /\ board \subseteq Square

\* the h-file has just been shifted one column to the right and the
\* a-file one column to the left: nothing is left of either
C25_Witness ==
    /\ last.op = "shift"
    /\ last.rows = 0
    /\ \/ last.cols = 1 /\ prev = from_col(ColH)
       \/ last.cols = -1 /\ prev = from_col(ColA)
    /\ board = {}

\* ------------------------------------------------- position import alone
\* GameState::try_from_fen applied to position strings put together from a
\* few eighth, fourth and first ranks (with no king, one king, two kings, a
\* king of either colour), turn fields and castle fields, the other ranks
\* empty. last.fen is the string; board, turn, ... are the GameState once
\* try_from_fen returned one.
TopRows == {<<"4", "k", "3">>, <<"8">>, <<"3", "k", "k", "3">>, <<"K", "3", "k", "3">>}
MidRows == {<<"8">>, <<"4", "K", "3">>, <<"k", "7">>}
BottomRows ==
    {<<"4", "K", "3">>, <<"8">>, <<"K", "6", "K">>, <<"4", "k", "3">>,
     <<"4", "K", "2">>, <<"4", "K", "4">>}
TurnFields == {"w", "b", "x"}
CastleFields == {"-", "KQ", "x"}

FenInputs ==
    {[placement |-> top \o <<"/", "8", "/", "8", "/", "8", "/">> \o mid
                        \o <<"/", "8", "/", "8", "/">> \o bottom,
      turn |-> t, castle |-> c, ep |-> <<"-">>, half_move |-> 0, full_move |-> 1] :
        top \in TopRows, mid \in MidRows, bottom \in BottomRows,
        t \in TurnFields, c \in CastleFields}

FenInit ==
    /\ \E fen \in FenInputs :
        last = [op |-> "fen", fen |-> fen, ok |-> FALSE, err |-> "None"]
    /\ board = Board_new
    /\ prev = Board_new
    /\ turn = White
    /\ castle = Castle_Null
    /\ ep_square = NoSquare
    /\ half_move = 0
    /\ full_move = 0
    /\ calls_left = 0

\* try_from_fen(fen) returned r
FenReturn(fen, r) ==
    /\ board' = r.val.board
    /\ turn' = r.val.turn
    /\ castle' = r.val.castle
    /\ ep_square' = r.val.ep_square
    /\ half_move' = r.val.half_move
    /\ full_move' = r.val.full_move
    /\ last' = [op |-> "try_from_fen", fen |-> fen, ok |-> r.ok, err |-> r.err]
    /\ UNCHANGED <<prev, calls_left>>

\* GameState::try_from_fen(fen)
TryFromFen ==
    /\ last.op = "fen"
    /\ FenReturn(last.fen, try_from_fen(last.fen))

FenSpec == FenInit /\ [][TryFromFen]_vars

\* the number of times the character stands in the piece placement
CountChar(placement, ch) ==
    Cardinality({i \in 1..Len(placement) : placement[i] = ch})

\* the placement names exactly one white king and exactly one black king
OneKingEach(fen) ==
    CountChar(fen.placement, "K") = 1 /\ CountChar(fen.placement, "k") = 1

\* the fields try_from_fen reads before it counts the kings all parse
FieldsParse(fen) ==
    /\ Board_try_from_fen(fen.placement).ok
    /\ fen.turn \in {"w", "b"}
    /\ castle_from_str(fen.castle) >= 0
    /\ (fen.ep = <<"-">> \/ square_from_str(fen.ep) # NoSquare)
    /\ fen.half_move < U16Modulus /\ fen.full_move < U16Modulus

\* C26: try_from_fen succeeds only if the parsed board holds exactly one
\* white king and exactly one black king; any other king count yields no
\* GameState, and the illegal-state error when the fields read before the
\* kings are counted all parse.
C26_KingCountChecked ==
    last.op = "try_from_fen" =>
        /\ last.ok =>
            /\ OneKingEach(last.fen)
            /\ count_pieces(board, WHITE_KING) = 1
            /\ count_pieces(board, BLACK_KING) = 1
        /\ ~OneKingEach(last.fen) =>
            /\ ~last.ok
            /\ FieldsParse(last.fen) => last.err = "IllegalState"

\* C26 as stated: any other king count yields the illegal-state error,
\* whatever the other fields are.
C26_AnyOtherKingCountIsIllegalState ==
    (last.op = "try_from_fen" /\ ~OneKingEach(last.fen))
        => (~last.ok /\ last.err = "IllegalState")

\* a position with two white kings and one black king was refused as an
\* illegal state
C26_Witness ==
    /\ last.op = "try_from_fen"
    /\ CountChar(last.fen.placement, "K") = 2
    /\ CountChar(last.fen.placement, "k") = 1
    /\ FieldsParse(last.fen)
    /\ ~last.ok /\ last.err = "IllegalState"

\* C27: the squares tested for attack when castling are the squares the
\* king traverses, origin through destination: with the king and the rook at
\* home, the right held, the squares between them empty and no square of the
\* king's path attacked, castling succeeds, queen-side also when the b-file
\* square next to the rook is attacked.
C27_CastlingTestsKingPath ==
    \A wing \in Wing :
        (/\ get_sq(board, KingHome(turn)) = Piece(turn, King)
         /\ get_sq(board, RookHome(turn, wing)) = Piece(turn, Rook)
         /\ HasRight(castle, turn, wing)
         /\ PathEmpty(board, KingHome(turn), RookHome(turn, wing))
         /\ \A s \in Traversed(KingHome(turn), KingTarget(turn, wing)) :
                ~TrulyAttacked(board, s, turn))
            => make_move(Self, KingHome(turn), KingTarget(turn, wing)).res = Ok

\* the figures make_generic_move serves
GenericFigures == {Knight, Rook, Bishop, Queen}

\* the move from -> to follows the figure's pattern on the board b, jumps
\* over no piece and does not end on a piece of the mover's colour
PseudoLegal(b, FIGURE, from, to, color) ==
    /\ get_sq(b, to) = NoPiece \/ get_sq(b, to).color = NotColor(color)
    /\ CASE FIGURE = Knight -> {ColDist(from, to), RowDist(from, to)} = {1, 2}
         [] FIGURE = Rook -> OnStraightLine(from, to) /\ PathEmpty(b, from, to)
         [] FIGURE = Bishop -> OnDiagonal(from, to) /\ PathEmpty(b, from, to)
         [] FIGURE = Queen ->
                (OnStraightLine(from, to) \/ OnDiagonal(from, to)) /\ PathEmpty(b, from, to)

\* C28: make_move accepts the move of a knight, rook, bishop or queen of the
\* side to move only if the move follows the figure's pattern, every square
\* strictly between from and to is empty (rook, bishop, queen) and `to`
\* holds no piece of the mover's colour; a move that does so, a capture of an
\* enemy piece included, is not refused as IllegalMove.
C28_GenericMovePseudoLegal ==
    \A from \in Square : \A to \in Square :
        (get_sq(board, from).color = turn /\ get_sq(board, from).figure \in GenericFigures)
            => /\ make_move(Self, from, to).res = Ok
                    => PseudoLegal(board, get_sq(board, from).figure, from, to, turn)
               /\ make_move(Self, from, to).res = IllegalMove
                    <=> ~PseudoLegal(board, get_sq(board, from).figure, from, to, turn)

\* a queen has taken an enemy piece at the end of a diagonal over at least
\* one empty square
C28_Witness ==
    /\ Accepted /\ last.op = "make_move"
    /\ get_sq(prev.board, last.from).figure = Queen
    /\ last.captured # NoPiece
    /\ OnDiagonal(last.from, last.to)
    /\ SquaresBetween(last.from, last.to) # {}
    /\ get_sq(board, last.to).figure = Queen

\* --------------------------------------------- the attack tables on their own
\* The tables are built once; each step looks one of them up for one of the
\* 64 squares (and one of the two colours for the pawn table). `board` holds
\* the bitboard returned and `last` the lookup made.
TableInit ==
    /\ board = {}
    /\ prev = board
    /\ last = [op |-> "gen_table", square |-> NoSquare, color |-> White]
    /\ turn = White
    /\ castle = Castle_Null
    /\ ep_square = NoSquare
    /\ half_move = 0
    /\ full_move = 1
    /\ calls_left = 0

\* BitBoard::king_moves(s), BitBoard::knight_moves(s) or
\* BitBoard::pawn_attacks(s, color)
Lookup ==
    \E s \in Square : \E color \in Color :
        /\ \/ /\ board' = king_moves(s)
              /\ last' = [op |-> "king_moves", square |-> s, color |-> White]
           \/ /\ board' = knight_moves(s)
              /\ last' = [op |-> "knight_moves", square |-> s, color |-> White]
           \/ /\ board' = pawn_attacks(s, color)
              /\ last' = [op |-> "pawn_attacks", square |-> s, color |-> color]
        /\ UNCHANGED <<prev, turn, castle, ep_square, half_move, full_move, calls_left>>

TableSpec == TableInit /\ [][Lookup]_vars

\* the on-board squares at king distance 1 from s
KingPattern(s) ==
    {t \in Square : t # s /\ ColDist(s, t) <= 1 /\ RowDist(s, t) <= 1}
\* the on-board squares a knight's jump away from s
KnightPattern(s) ==
    {t \in Square : {ColDist(s, t), RowDist(s, t)} = {1, 2}}
\* the on-board squares one row forward for the colour and one column to
\* either side of s
PawnAttackPattern(s, color) ==
    {t \in Square : /\ ColDist(s, t) = 1
                    /\ row(t) - row(s) = (IF color = White THEN 1 ELSE -1)}
\* the two columns at the left edge and the two at the right edge
LeftEdge == {ColA, ColA + 1}
RightEdge == {ColH - 1, ColH}

\* C29: for every one of the 64 squares s the table entry returned is the
\* geometric pattern: king_moves(s) the on-board squares at king distance 1,
\* knight_moves(s) the on-board squares a knight's jump away,
\* pawn_attacks(s, color) the on-board squares one row forward for the colour
\* and one column to either side; s is never in its own pattern, and a
\* square on column A or B yields no square on column G or H, nor the other
\* way round.
C29_TablesAreGeometric ==
    last.op \in {"king_moves", "knight_moves", "pawn_attacks"} =>
        /\ last.op = "king_moves" => board = KingPattern(last.square)
        /\ last.op = "knight_moves" => board = KnightPattern(last.square)
        /\ last.op = "pawn_attacks" => board = PawnAttackPattern(last.square, last.color)
        /\ last.square \notin board
        /\ col(last.square) \in LeftEdge => \A t \in board : col(t) \notin RightEdge
        /\ col(last.square) \in RightEdge => \A t \in board : col(t) \notin LeftEdge

\* the knight table has been looked up for the corner a1: b3 and c2, nothing
\* on the g- or h-file
C29_Witness ==
    /\ last.op = "knight_moves"
    /\ last.square = A1
    /\ board = {from_coords(ColA + 1, RowOne + 2), from_coords(ColA + 2, RowOne + 1)}

\* the bitboards of b that contain the square s: the piece bitboards, the
\* colour occupancies and the overall occupancy
BoardsHolding(b, s) ==
    [pieces |-> {P \in Pieces : contains(get_piece_board(b, P), s)},
     colors |-> {c \in Color : contains(occupied_color(b, c), s)},
     occupied |-> contains(b.occupied, s)]

\* the boards b0 and b1 differ on no square other than s
SameElsewhere(b0, b1, s) ==
    \A t \in Square \ {s} :
        get_sq(b1, t) = get_sq(b0, t) /\ BoardsHolding(b1, t) = BoardsHolding(b0, t)

\* C31: set_sq(square, piece) returns the piece that stood on the square
\* (None if it was empty) and afterwards the square belongs to the new
\* piece's bitboard, its colour's occupancy and the overall occupancy and to
\* no other bitboard; clear_sq(square) returns the piece removed and leaves
\* the square in no bitboard; no other square changes.
C31_SetAndClearSq ==
    /\ last.op = "set_sq" =>
        /\ last.captured = get_sq(prev, last.to)
        /\ get_sq(board, last.to) = last.piece
        /\ BoardsHolding(board, last.to) =
              [pieces |-> {last.piece}, colors |-> {last.piece.color}, occupied |-> TRUE]
        /\ SameElsewhere(prev, board, last.to)
    /\ last.op = "clear_sq" =>
        /\ last.captured = get_sq(prev, last.to)
        /\ get_sq(board, last.to) = NoPiece
        /\ BoardsHolding(board, last.to) =
              [pieces |-> {}, colors |-> {}, occupied |-> FALSE]
        /\ SameElsewhere(prev, board, last.to)

\* set_sq has put a white pawn on a square that held the black rook while
\* another square holds a piece
C31_Witness ==
    /\ last.op = "set_sq"
    /\ last.piece = WHITE_PAWN
    /\ last.captured = BLACK_ROOK
    /\ \E t \in Square \ {last.to} : get_sq(board, t) # NoPiece

\* ------------------------------------------------- a BitBoard iterated alone
\* `board` is the BitBoard value iter() is called on, `prev` the rem_board of
\* the BitBoardIter it makes (a copy: iter takes self by value and BitBoard
\* is Copy), `last` the items next() has returned so far and whether it has
\* returned None.
IterSquares == {A1, A1 + 1, H1, from_coords(ColA, RowOne + 1),
                from_coords(ColH, RowFour), from_coords(ColA, RowFive), H8}
IterBoards == (SUBSET IterSquares) \cup {Square}

\* let it = board.iter()
IterInit ==
    /\ board \in IterBoards
    /\ prev = board
    /\ last = [op |-> "iter", of |-> board, items |-> <<>>, done |-> FALSE]
    /\ turn = White
    /\ castle = Castle_Null
    /\ ep_square = NoSquare
    /\ half_move = 0
    /\ full_move = 1
    /\ calls_left = 0

\* it.next()
IterNext ==
    /\ prev' = iter_next(prev).rem_board
    /\ last' = IF iter_next(prev).ret = NoSquare
               THEN [last EXCEPT !.op = "next", !.done = TRUE]
               ELSE [last EXCEPT !.op = "next",
                                 !.items = Append(@, iter_next(prev).ret)]
    /\ UNCHANGED <<board, turn, castle, ep_square, half_move, full_move, calls_left>>

IterSpec == IterInit /\ [][IterNext]_vars

\* the squares of a sequence of squares
Items(seq) == {seq[i] : i \in 1..Len(seq)}

\* C32: iterating a BitBoard yields set squares only, each once, in strictly
\* increasing index, the lowest set bit first; None comes exactly after
\* count_squares() items (at once for the empty board), every set square
\* having been yielded; the board iterated is not modified.
C32_IterYieldsEachSquareOnce ==
    /\ board = last.of
    /\ Items(last.items) \subseteq board
    /\ \A i \in 1..Len(last.items) : \A j \in 1..Len(last.items) :
            i < j => last.items[i] < last.items[j]
    /\ Len(last.items) >= 1 => \A s \in board : last.items[1] <= s
    /\ \A s \in board \ Items(last.items) : \A t \in Items(last.items) : t < s
    /\ last.done => /\ Len(last.items) = count_squares(board)
                    /\ Items(last.items) = board
    /\ (last.op = "next" /\ ~last.done) => Len(last.items) <= count_squares(board)
    /\ last.items = SubSeq(bitboard_iter(board), 1, Len(last.items))

\* the iteration of a board of three squares has ended after three items
C32_Witness ==
    /\ last.done
    /\ Len(last.items) = 3
    /\ board = {A1, from_coords(ColH, RowFour), H8}
    /\ last.items = <<A1, from_coords(ColH, RowFour), H8>>

\* next() has returned None at once for the empty board
C32_WitnessEmpty ==
    last.done /\ board = {} /\ last.items = <<>>

\* ------------------------------------------------- a Castle value on its own
\* `castle` is the Castle value, `prev` the value before the last operation
\* and `last` the operation applied with its argument.
CastleInit ==
    /\ castle \in Castle
    /\ prev = castle
    /\ last = [op |-> "Castle", rhs |-> Castle_Null, color |-> White]
    /\ board = Board_new
    /\ turn = White
    /\ ep_square = NoSquare
    /\ half_move = 0
    /\ full_move = 1
    /\ calls_left = 0

\* castle &= rhs, castle |= rhs, castle.remove_castle(color),
\* castle.remove_king_castle(color) or castle.remove_queen_castle(color)
CastleOp ==
    /\ \/ \E rhs \in Castle :
            /\ castle' = castle_bitand(castle, rhs)
            /\ last' = [op |-> "bitand", rhs |-> rhs, color |-> White]
       \/ \E rhs \in Castle :
            /\ castle' = castle_bitor(castle, rhs)
            /\ last' = [op |-> "bitor", rhs |-> rhs, color |-> White]
       \/ \E color \in Color :
            /\ castle' = remove_castle(castle, color)
            /\ last' = [op |-> "remove_castle", rhs |-> Castle_Null, color |-> color]
       \/ \E color \in Color :
            /\ castle' = remove_king_castle(castle, color)
            /\ last' = [op |-> "remove_king_castle", rhs |-> Castle_Null, color |-> color]
       \/ \E color \in Color :
            /\ castle' = remove_queen_castle(castle, color)
            /\ last' = [op |-> "remove_queen_castle", rhs |-> Castle_Null, color |-> color]
    /\ prev' = castle
    /\ UNCHANGED <<board, turn, ep_square, half_move, full_move, calls_left>>

CastleSpec == CastleInit /\ [][CastleOp]_vars

\* the rights a Castle value holds
Rights(c) == {cw \in Color \X Wing : HasRight(c, cw[1], cw[2])}

\* C33: Castle is closed under its operations: AND and OR of two of the 16
\* values and each of remove_castle, remove_king_castle, remove_queen_castle
\* give one of the 16 values; remove_king_castle(c) clears exactly c's
\* king-side flag, remove_queen_castle(c) exactly c's queen-side flag,
\* remove_castle(c) exactly both, the other flags staying as they were, and
\* each is idempotent; can_king_castle and can_queen_castle report exactly
\* the flag of the colour and wing.
C33_CastleClosed ==
    /\ castle \in Castle
    /\ last.op = "bitand" => Rights(castle) = Rights(prev) \cap Rights(last.rhs)
    /\ last.op = "bitor" => Rights(castle) = Rights(prev) \cup Rights(last.rhs)
    /\ last.op = "remove_king_castle" =>
        /\ Rights(castle) = Rights(prev) \ {<<last.color, KingSide>>}
        /\ remove_king_castle(castle, last.color) = castle
    /\ last.op = "remove_queen_castle" =>
        /\ Rights(castle) = Rights(prev) \ {<<last.color, QueenSide>>}
        /\ remove_queen_castle(castle, last.color) = castle
    /\ last.op = "remove_castle" =>
        /\ Rights(castle) = Rights(prev) \ {<<last.color, KingSide>>, <<last.color, QueenSide>>}
        /\ remove_castle(castle, last.color) = castle
    /\ \A color \in Color :
        /\ can_king_castle(castle, color) <=> <<color, KingSide>> \in Rights(castle)
        /\ can_queen_castle(castle, color) <=> <<color, QueenSide>> \in Rights(castle)
    /\ \A c1 \in Castle : \A c2 \in Castle :
        (Rights(c1) = Rights(c2)) => c1 = c2

\* remove_queen_castle(White) has just taken the queen-side right from a
\* value that held all four: white's king-side right and black's are left
C33_Witness ==
    /\ last.op = "remove_queen_castle" /\ last.color = White
    /\ prev = Castle_KQkq
    /\ castle = Castle_Kkq
    /\ can_king_castle(castle, White) /\ ~can_queen_castle(castle, White)

\* ------------------------------------- games played from the starting position
\* The calls of a game from DEFAULT_FEN whose squares are those of the king's
\* pawn, the f- and a-pawn of Black, the white queen and the black king.
GameSquares ==
    {from_coords(ColE, RowOne + 1), from_coords(ColE, RowFour),
     from_coords(ColA + 5, RowEight - 1), from_coords(ColA + 5, RowEight - 2),
     from_coords(ColA + 3, RowOne), from_coords(ColH, RowFive),
     from_coords(ColA, RowEight - 1), from_coords(ColA, RowEight - 2),
     from_coords(ColE, RowEight)}

\* GameState::default()
GameInit == Constructed(try_from_fen(DEFAULT_FEN), MaxGame)

\* gs.make_move(from, to)
GameMove ==
    \E from \in GameSquares : \E to \in GameSquares :
        Return("make_move", from, to, NoPiece, make_move(Self, from, to))

\* gs.make_promotion(from, to, promotion_piece)
GamePromotion ==
    \E from \in GameSquares : \E to \in GameSquares : \E piece \in PromotionPieces :
        Return("make_promotion", from, to, piece, make_promotion(Self, from, to, piece))

GameNext == GameMove \/ GamePromotion

GameSpec == GameInit /\ [][GameNext]_vars

\* C34: in every state reached from the starting position by make_move and
\* make_promotion calls, a colour that holds its king-side (queen-side)
\* right has its king on the e-file square of its home rank and a rook of
\* its own on the h-file (a-file) square of that rank.
C34_HeldRightMeansPiecesAtHome ==
    \A c \in Color : \A wing \in Wing :
        HasRight(castle, c, wing) =>
            /\ get_sq(board, KingHome(c)) = Piece(c, King)
            /\ get_sq(board, RookHome(c, wing)) = Piece(c, Rook)

\* the number of files a rank of the piece placement names: a digit counts
\* for its value, a piece letter for one
RECURSIVE FilesOf(_, _)
FilesOf(chars, i) ==
    IF i > Len(chars) THEN 0
    ELSE (IF is_ascii_digit(chars[i]) THEN to_digit(chars[i]) ELSE 1)
         + FilesOf(chars, i + 1)

\* C35: a piece placement is accepted only if it has exactly 8 ranks and the
\* piece letters and digits of every rank sum to exactly 8 files; a rank of
\* fewer or more files is refused with a parse error.
C35_RanksSumToEightFiles ==
    (last.op = "try_from_fen" /\ last.ok) =>
        /\ CountChar(last.fen.placement, "/") = 7
        /\ \A k \in 1..8 : FilesOf(fen_row_chars(last.fen.placement, k), 1) = 8

\* ------------------------------------------------ the counters at their limit
\* Positions of two kings and a rook whose half-move clock and full-move
\* counter are at or near the largest u16, with either side to move.
CounterValues == {0, U16Modulus - 2, U16Modulus - 1}
CounterFens ==
    {[placement |-> <<"4", "k", "3", "/", "8", "/", "8", "/", "8", "/", "8", "/",
                      "8", "/", "8", "/", "4", "K", "2", "R">>,
      turn |-> t, castle |-> "-", ep |-> <<"-">>, half_move |-> h, full_move |-> f] :
        t \in {"w", "b"}, h \in CounterValues, f \in CounterValues}

\* make_move(from, to) on gs executes a `+= 1` on a counter that stands at
\* 65535: `self.half_move += 1` in the tail of make_king_move and
\* make_generic_move when nothing was taken, `self.full_move += 1` in
\* end_move when Black moved
make_move_overflows(gs, from, to) ==
    /\ make_move(gs, from, to).res = Ok
    /\ \/ /\ get_sq(gs.board, from).figure # Pawn
          /\ make_move(gs, from, to).captured = NoPiece
          /\ gs.half_move + 1 >= U16Modulus
       \/ /\ gs.turn = Black
          /\ gs.full_move + 1 >= U16Modulus

CounterInit ==
    \E fen \in CounterFens : Constructed(try_from_fen(fen), MaxPly)

\* gs.make_move(from, to) returning to its caller; an overflowing `+= 1`
\* wraps (a build without overflow checks)
CounterMove ==
    \E from \in Square : \E to \in MoveTargets(from) :
        Return("make_move", from, to, NoPiece, make_move(Self, from, to))

\* gs.make_move(from, to) panicking at an overflowing `+= 1` (a build with
\* overflow checks): the call does not return and no further call is made
CounterPanic ==
    \E from \in Square : \E to \in MoveTargets(from) :
        /\ calls_left > 0
        /\ make_move_overflows(Self, from, to)
        /\ last' = [NoCall EXCEPT !.op = "make_move", !.res = "Panic"]
        /\ prev' = Self
        /\ calls_left' = 0
        /\ UNCHANGED <<board, turn, castle, ep_square, half_move, full_move>>

CounterNext == CounterMove \/ CounterPanic

CounterSpec == CounterInit /\ [][CounterNext]_vars

\* C36: for every GameState position import can produce, the counters being
\* any u16 values, make_move completes and returns Ok or a MoveError: the
\* half-move clock is one more than it was after a quiet move of a piece,
\* the full-move counter one more after Black's move, and neither leaves the
\* 16-bit range.
C36_CountersNeverOverflow ==
    /\ last.res \in {Ok} \cup MoveError
    /\ (Accepted /\ last.captured = NoPiece
            /\ get_sq(prev.board, last.from).figure # Pawn)
        => half_move = prev.half_move + 1
    /\ Accepted
        => full_move = prev.full_move + (IF prev.turn = Black THEN 1 ELSE 0)

\* one call: the rights held after it are among those held before it
RightsNotGranted == Rights(castle') \subseteq Rights(castle)

\* C37: castling rights never grow: along any sequence of make_move and
\* make_promotion calls, accepted or rejected, the rights held in a state
\* are a subset of those held in the state before; no call grants a right.
C37_RightsNeverGrow == [][RightsNotGranted]_vars

\* a call has just taken rights away and the others are still held
C37_Witness ==
    /\ Accepted
    /\ Rights(castle) # Rights(prev.castle)
    /\ Rights(castle) \subseteq Rights(prev.castle)
    /\ Rights(castle) # {}

\* the squares q and s touch, by a side or a corner
Adjacent(q, s) == q # s /\ ColDist(q, s) <= 1 /\ RowDist(q, s) <= 1

\* no white king stands next to a black king
KingsApart(b) ==
    \A q \in KingSquares(b, White) : \A s \in KingSquares(b, Black) : ~Adjacent(q, s)

\* C38: a successful move from a position whose kings are not adjacent
\* leaves the kings not adjacent; a king move, ordinary or castling, onto a
\* square next to the enemy king is rejected.
C38_KingsNeverAdjacent ==
    /\ (Accepted /\ KingsApart(prev.board)) => KingsApart(board)
    /\ KingsApart(board) =>
        \A from \in KingSquares(board, turn) : \A to \in Square :
            (\E s \in KingSquares(board, NotColor(turn)) : Adjacent(to, s))
                => make_move(Self, from, to).res # Ok

\* ------------------------------------------------------------ the application
\* App of main.rs: `board` .. `full_move` are App.gs; `prev` holds
\* App.app_state (with the fields of its variant) and App.last_move; `last`
\* is what the last frame did: the library call it made, if any, with its
\* arguments and result, the square clicked when make_promotion was called,
\* and whether update_promoting saw a left click.
Free == "Free"
Clicked == "Clicked"
PromotingState == "Promoting"

AppFree(last_move) ==
    [app_state |-> Free, from |-> NoSquare, to |-> NoSquare, piece |-> NoPiece,
     last_move |-> last_move]

NoFrameCall ==
    [called |-> "none", from |-> NoSquare, to |-> NoSquare, piece |-> NoPiece,
     res |-> Ok, clicked |-> NoSquare, click |-> FALSE]

\* process_move_result entering Promoting on every error
process_move_result_any_error(app, from, to, res) ==
    IF res = Ok THEN [app EXCEPT !.last_move = <<from, to>>]
    ELSE [app EXCEPT !.app_state = PromotingState, !.from = from, !.to = to,
                     !.piece = NoPiece]

\* App::process_move_result (the sounds and the printing left out)
process_move_result(app, from, to, res) ==
    IF res = Ok THEN [app EXCEPT !.last_move = <<from, to>>]
    ELSE IF res = Promoting
    THEN [app EXCEPT !.app_state = PromotingState, !.from = from, !.to = to,
                     !.piece = NoPiece]
    ELSE app

\* App::get_promotion_piece: NoPiece for None
get_promotion_piece(gs, rank) ==
    LET figure ==
            IF gs.turn = Black
            THEN CASE rank = RowOne -> Queen
                   [] rank = RowTwo -> Rook
                   [] rank = RowThree -> Knight
                   [] rank = RowFour -> Bishop
                   [] OTHER -> "None"
            ELSE CASE rank = RowEight -> Queen
                   [] rank = RowSeven -> Rook
                   [] rank = RowSix -> Knight
                   [] rank = RowFive -> Bishop
                   [] OTHER -> "None"
    IN  IF figure = "None" THEN NoPiece ELSE Piece(gs.turn, figure)

\* one frame of update_state: App becomes (gs1, app1), the frame did `call`
Frame(app1, gs1, call) ==
    /\ calls_left > 0
    /\ prev' = app1
    /\ board' = gs1.board
    /\ turn' = gs1.turn
    /\ castle' = gs1.castle
    /\ ep_square' = gs1.ep_square
    /\ half_move' = gs1.half_move
    /\ full_move' = gs1.full_move
    /\ last' = call
    /\ calls_left' = IF call.called = "none" THEN calls_left ELSE calls_left - 1

\* the square under the mouse, NoSquare when it is off the board
MouseSquares == Square \cup {NoSquare}

\* App::new(KNPR)
AppInit ==
    /\ try_from_fen(KNPR).ok
    /\ board = try_from_fen(KNPR).val.board
    /\ turn = try_from_fen(KNPR).val.turn
    /\ castle = try_from_fen(KNPR).val.castle
    /\ ep_square = try_from_fen(KNPR).val.ep_square
    /\ half_move = try_from_fen(KNPR).val.half_move
    /\ full_move = try_from_fen(KNPR).val.full_move
    /\ prev = AppFree(<<>>)
    /\ last = NoFrameCall
    /\ calls_left = MaxApp

\* update_state in AppState::Free
UpdateFree ==
    /\ prev.app_state = Free
    /\ \E pressed \in BOOLEAN : \E square \in MouseSquares :
        Frame(IF ~pressed \/ square = NoSquare THEN prev
              ELSE IF get_sq(board, square) = NoPiece THEN prev
              ELSE [prev EXCEPT !.app_state = Clicked, !.from = square,
                                !.piece = get_sq(board, square)],
              Self, NoFrameCall)

\* update_state in AppState::Clicked { from, piece }
UpdateClicked ==
    /\ prev.app_state = Clicked
    /\ \E down \in BOOLEAN : \E to \in MouseSquares :
        IF down THEN Frame(prev, Self, NoFrameCall)
        ELSE IF to = NoSquare THEN Frame(AppFree(prev.last_move), Self, NoFrameCall)
        ELSE Frame(process_move_result(AppFree(prev.last_move), prev.from, to,
                                       make_move(Self, prev.from, to).res),
                   make_move(Self, prev.from, to).gs,
                   [NoFrameCall EXCEPT !.called = "make_move", !.from = prev.from,
                                       !.to = to,
                                       !.res = make_move(Self, prev.from, to).res])

\* the make_promotion call of update_promoting and what follows it
PromotionFrame(clicked, piece) ==
    Frame(process_move_result(AppFree(prev.last_move), prev.from, prev.to,
                              make_promotion(Self, prev.from, prev.to, piece).res),
          make_promotion(Self, prev.from, prev.to, piece).gs,
          [called |-> "make_promotion", from |-> prev.from, to |-> prev.to,
           piece |-> piece,
           res |-> make_promotion(Self, prev.from, prev.to, piece).res,
           clicked |-> clicked, click |-> TRUE])

\* update_state in AppState::Promoting { from, to }
UpdatePromoting ==
    /\ prev.app_state = PromotingState
    /\ \E pressed \in BOOLEAN : \E clicked \in MouseSquares :
        IF ~pressed THEN Frame(prev, Self, NoFrameCall)
        ELSE IF \/ clicked = NoSquare
                \/ col(clicked) # col(prev.to)
                \/ get_promotion_piece(Self, row(clicked)) = NoPiece
        THEN Frame(AppFree(prev.last_move), Self, [NoFrameCall EXCEPT !.click = TRUE])
        ELSE PromotionFrame(clicked, get_promotion_piece(Self, row(clicked)))

AppNext == UpdateFree \/ UpdateClicked \/ UpdatePromoting

AppSpec == AppInit /\ [][AppNext]_vars

\* one frame of the application, as C39 wants it
PromotingStep ==
    /\ (prev'.app_state = PromotingState
            /\ (prev.app_state # PromotingState \/ last'.called # "none"))
        => /\ last'.called = "make_move"
           /\ last'.res = Promoting
           /\ prev'.from = last'.from /\ prev'.to = last'.to
    /\ (prev.app_state = PromotingState /\ last'.click)
        => prev'.app_state = Free
    /\ (prev.app_state = PromotingState /\ ~last'.click)
        => prev' = prev /\ last'.called = "none"
    /\ last'.called = "make_promotion"
        => /\ prev.app_state = PromotingState
           /\ prev'.app_state = Free
           /\ last'.from = prev.from /\ last'.to = prev.to
           /\ last'.clicked # NoSquare /\ col(last'.clicked) = col(prev.to)
           /\ last'.piece.color = turn
           /\ last'.piece.figure \in {Queen, Rook, Knight, Bishop}

\* C39: the application enters Promoting only when make_move(from, to) has
\* just returned the Promoting error, and remembers that (from, to); from
\* Promoting the next left click leads to Free; make_promotion is called at
\* most once per Promoting episode (the call ends the episode), only with
\* the remembered (from, to), only for a click on the destination column,
\* and only with a queen, rook, knight or bishop of the side to move.
C39_PromotingEpisode == [][PromotingStep]_vars

\* a click on the destination column has ended a Promoting episode with an
\* accepted make_promotion: the piece chosen stands on the destination
C39_Witness ==
    /\ last.called = "make_promotion" /\ last.res = Ok
    /\ prev.app_state = Free
    /\ prev.last_move = <<last.from, last.to>>
    /\ col(last.clicked) = col(last.to)
    /\ get_sq(board, last.to) = last.piece
    /\ last.piece.figure = Knight

====
